---- MODULE Spec2Model ----
(***************************************************************************)
(* Model of the graphics-shapes library: integer 2D shapes (Line, Rect,    *)
(* Circle, Ellipse, Triangle, Polygon), their constructors, canonical      *)
(* point lists, point containment, pairwise intersection and pairwise      *)
(* containment.  The library is a set of pure functions; each is an        *)
(* operator computed as the source computes it.  A client picks input      *)
(* shapes (Init of each specification) and applies one operation (an       *)
(* action), whose result is recorded in `out`.                             *)
(*                                                                         *)
(* Floating point: the source computes distances in f64 and angles in f32  *)
(* and rounds the results to integers.  For the small coordinates used     *)
(* here those roundings are decided exactly by integer comparisons (a      *)
(* square root of an integer is never k + 1/2; the tangent of k + 1/2      *)
(* degrees is irrational), which is how they are computed below.           *)
(***************************************************************************)
EXTENDS Integers, Sequences, FiniteSets, TLC

VARIABLES
    op,     \* the operation the client has applied ("none" before it)
    lhs,    \* the receiver shape (self)
    rhs,    \* the other shape of a two-shape operation, or NoShape
    pt,     \* the point argument of a point operation
    out     \* the result of the operation

vars == <<op, lhs, rhs, pt, out>>

----------------------------------------------------------------------------
(* Bounds of the model *)

\* coordinates of input points range over 0..MaxCoord
MaxCoord == 3
\* radii of input circles range over 0..MaxRadius
MaxRadius == 3

\* the longest slice of points handed to a constructor
MaxPoints == 3
\* the longest sequence of transforms applied to one shape
MaxSteps == 2

----------------------------------------------------------------------------
(* Integer helpers (Rust isize semantics) *)

Abs(n) == IF n < 0 THEN 0 - n ELSE n
Min(a, b) == IF a <= b THEN a ELSE b
Max(a, b) == IF a >= b THEN a ELSE b
Sign(n) == IF n < 0 THEN 0 - 1 ELSE IF n > 0 THEN 1 ELSE 0

\* Rust's integer division truncates toward zero (d > 0)
TruncDiv(n, d) == IF n >= 0 THEN n \div d ELSE 0 - ((0 - n) \div d)

\* f64::round of sqrt(n) for an integer n >= 0: the k with (k - 1/2)^2 <= n < (k + 1/2)^2
RoundSqrt(n) == CHOOSE k \in 0..n : n <= k * k + k /\ (k = 0 \/ n > k * k - k)

\* isize ^ 2 in Rust is bitwise XOR with 2 (two's complement): it flips bit 1
Xor2(n) == IF (n % 4) \in {0, 1} THEN n + 2 ELSE n - 2

----------------------------------------------------------------------------
(* Coord *)

coord(x, y) == [x |-> x, y |-> y]

Coord_add(a, b) == coord(a.x + b.x, a.y + b.y)
Coord_sub(a, b) == coord(a.x - b.x, a.y - b.y)

distance(self, other) ==
    LET x == other.x - self.x
        y == other.y - self.y
    IN RoundSqrt(x * x + y * y)

are_collinear(self, b, c) ==
    (b.x - self.x) * (c.y - self.y) = (c.x - self.x) * (b.y - self.y)

is_between(self, a, b) ==
    \/ (a.x <= self.x /\ self.x <= b.x) /\ (a.y <= self.y /\ self.y <= b.y)
    \/ (b.x <= self.x /\ self.x <= a.x) /\ (b.y <= self.y /\ self.y <= a.y)

mid_point(self, other) ==
    coord(TruncDiv(self.x + other.x, 2), TruncDiv(self.y + other.y, 2))

cross_product(self, other) == self.x * other.y - self.y * other.x

\* tan((k - 1/2) degrees) * 10^6 for k = 1..90: the thresholds between rounded degrees
TanHalfDeg == <<
    8727, 26186, 43661, 61163, 78702, 96289, 113936, 131652, 149451, 167343,
    185339, 203452, 221695, 240079, 258618, 277325, 296213, 315299, 334595, 354119,
    373885, 393910, 414214, 434812, 455726, 476976, 498582, 520567, 542956, 565773,
    589045, 612801, 637070, 661886, 687281, 713293, 739961, 767327, 795436, 824336,
    854081, 884725, 916331, 948965, 982697, 1017607, 1053780, 1091309, 1130294, 1170850,
    1213097, 1257172, 1303225, 1351422, 1401948, 1455009, 1510835, 1569686, 1631852, 1697663,
    1767494, 1841771, 1920982, 2005690, 2096544, 2194300, 2299843, 2414214, 2538648, 2674621,
    2823913, 2988685, 3171595, 3375943, 3605884, 3866713, 4165300, 4510709, 4915157, 5395517,
    5975764, 6691156, 7595754, 8776887, 10385397, 12706205, 16349855, 22903766, 38188459, 114588650 >>

\* sin(k degrees) * 10^6 for k = 0..90 (entry k + 1)
SinDeg == <<
    0, 17452, 34899, 52336, 69756, 87156, 104528, 121869, 139173, 156434,
    173648, 190809, 207912, 224951, 241922, 258819, 275637, 292372, 309017, 325568,
    342020, 358368, 374607, 390731, 406737, 422618, 438371, 453990, 469472, 484810,
    500000, 515038, 529919, 544639, 559193, 573576, 587785, 601815, 615661, 629320,
    642788, 656059, 669131, 681998, 694658, 707107, 719340, 731354, 743145, 754710,
    766044, 777146, 788011, 798636, 809017, 819152, 829038, 838671, 848048, 857167,
    866025, 874620, 882948, 891007, 898794, 906308, 913545, 920505, 927184, 933580,
    939693, 945519, 951057, 956305, 961262, 965926, 970296, 974370, 978148, 981627,
    984808, 987688, 990268, 992546, 994522, 996195, 997564, 998630, 999391, 999848, 1000000 >>

\* the scale of the two tables
TrigScale == 1000000

\* atan2(y, x).to_degrees().round() for x >= 0, y >= 0: a value in 0..90, the number of
\* half degrees k - 1/2 with tan(k - 1/2) <= y / x
AtanDegQ1(x, y) ==
    IF x = 0 THEN (IF y > 0 THEN 90 ELSE 0)
    ELSE IF y = 0 THEN 0
    ELSE IF x = y THEN 45
    ELSE Cardinality({k \in 1..90 : x <= (y * TrigScale) \div TanHalfDeg[k]})

\* atan2(y, x).to_degrees().round(): a value in -180..180 (y = 0, x < 0 gives 180)
AtanDeg(x, y) ==
    IF y < 0
    THEN (IF x >= 0 THEN 0 - AtanDegQ1(x, 0 - y) ELSE AtanDegQ1(0 - x, 0 - y) - 180)
    ELSE (IF x >= 0 THEN AtanDegQ1(x, y) ELSE 180 - AtanDegQ1(0 - x, y))

\* Angle in degrees from self to other, 0 is up
angle_to(self, other) == AtanDeg(other.x - self.x, other.y - self.y) + 90

\* sin(deg degrees) * TrigScale for any integer deg
SinScaled(deg) ==
    LET m == deg % 360
    IN IF m <= 90 THEN SinDeg[m + 1]
       ELSE IF m <= 180 THEN SinDeg[180 - m + 1]
       ELSE IF m <= 270 THEN 0 - SinDeg[m - 180 + 1]
       ELSE 0 - SinDeg[360 - m + 1]

CosScaled(deg) == SinScaled(deg + 90)

\* Degrees (as passed to from_angle, within -360..720) at which the f32 cosine,
\* resp. sine, of (degrees - 90) has magnitude 0.49999997 instead of 0.5, so that an
\* odd distance times it rounds toward zero
CosBelowHalf == {0 - 210, 0 - 150, 30, 150, 330, 390}
SinBelowHalf == {0 - 120, 300, 600, 660}

\* f32::round of (n / TrigScale), halves away from zero unless `below`
RoundScaled(n, below) ==
    LET a == Abs(n)
        q == IF below /\ (2 * a) % (2 * TrigScale) = TrigScale
             THEN a \div TrigScale
             ELSE (2 * a + TrigScale) \div (2 * TrigScale)
    IN IF n < 0 THEN 0 - q ELSE q

\* Coord::from_angle: 0 degrees is the top of the circle
from_angle(center, dist, degrees) ==
    LET x == RoundScaled(dist * CosScaled(degrees - 90), degrees \in CosBelowHalf)
        y == RoundScaled(dist * SinScaled(degrees - 90), degrees \in SinBelowHalf)
    IN coord(center.x + x, center.y + y)

----------------------------------------------------------------------------
(* Line *)

Line_new(start, end) ==
    [kind |-> "Line",
     start |-> start,
     end |-> end,
     len |-> distance(start, end),
     line_type |-> IF start = end THEN "Point"
                   ELSE IF start.x = end.x THEN "Vertical"
                   ELSE IF start.y = end.y THEN "Horizontal"
                   ELSE "Angled",
     angle |-> angle_to(start, end)]

Line_from_points(points) == Line_new(points[1], points[2])

Line_points(self) == <<self.start, self.end>>

Line_left(self) == Min(self.start.x, self.end.x)
Line_right(self) == Max(self.start.x, self.end.x)
Line_top(self) == Min(self.start.y, self.end.y)
Line_bottom(self) == Max(self.start.y, self.end.y)

Line_contains(self, point) ==
    CASE self.line_type = "Point" -> self.start = point
      [] self.line_type = "Horizontal" ->
            self.start.y = point.y /\ point.x \in Line_left(self)..Line_right(self)
      [] self.line_type = "Vertical" ->
            self.start.x = point.x /\ point.y \in Line_top(self)..Line_bottom(self)
      [] OTHER ->
            are_collinear(self.start, self.end, point) /\ is_between(point, self.start, self.end)

----------------------------------------------------------------------------
(* Rect *)

Rect_new(top_left, bottom_right) ==
    [kind |-> "Rect", top_left |-> top_left, bottom_right |-> bottom_right]

Rect_from_points(points) == Rect_new(points[1], points[2])

Rect_points(self) == <<self.top_left, self.bottom_right>>

Rect_left(self) == Min(self.top_left.x, self.bottom_right.x)
Rect_right(self) == Max(self.top_left.x, self.bottom_right.x)
Rect_top(self) == Min(self.top_left.y, self.bottom_right.y)
Rect_bottom(self) == Max(self.top_left.y, self.bottom_right.y)

Rect_width(self) == Abs(self.bottom_right.x - self.top_left.x)
Rect_height(self) == Abs(self.bottom_right.y - self.top_left.y)

\* Rect::contains with half-open ranges
Rect_contains_half_open(self, point) ==
    /\ point.x \in Rect_left(self)..(Rect_right(self) - 1)
    /\ point.y \in Rect_top(self)..(Rect_bottom(self) - 1)

Rect_contains(self, point) ==
    /\ point.x \in Rect_left(self)..Rect_right(self)
    /\ point.y \in Rect_top(self)..Rect_bottom(self)

\* the inherent top_left()/bottom_right() return the stored corners; top_right() and
\* bottom_left() are the Shape defaults, built from right()/top() and left()/bottom()
Rect_as_lines(self) ==
    LET top_right == coord(Rect_right(self), Rect_top(self))
        bottom_left == coord(Rect_left(self), Rect_bottom(self))
    IN << Line_new(self.top_left, top_right),
          Line_new(top_right, self.bottom_right),
          Line_new(self.bottom_right, bottom_left),
          Line_new(bottom_left, self.top_left) >>

----------------------------------------------------------------------------
(* Circle *)

Circle_new(center, radius) == [kind |-> "Circle", center |-> center, radius |-> radius]

\* must be <<center, edge>>
Circle_from_points(points) == Circle_new(points[1], distance(points[1], points[2]))

\* <<center, edge at 0 degrees>>
Circle_points(self) == <<self.center, from_angle(self.center, self.radius, 0)>>

Circle_contains(self, point) == distance(self.center, point) <= self.radius

----------------------------------------------------------------------------
(* Ellipse *)

Ellipse_new(center, width, height) ==
    [kind |-> "Ellipse",
     center |-> center,
     top |-> Coord_sub(center, coord(0, height \div 2)),
     right |-> Coord_add(center, coord(width \div 2, 0)),
     rotation |-> 0]

Ellipse_new_rotated(center, top, right) ==
    LET angle == angle_to(center, top)
    IN [kind |-> "Ellipse",
        center |-> center,
        top |-> from_angle(center, distance(center, top), (0 - angle)),
        right |-> from_angle(center, distance(center, right), (0 - angle) + 90),
        rotation |-> angle]

\* must be <<center, top, right>>
Ellipse_from_points(points) ==
    LET center == points[1]
        top == points[2]
        right == points[3]
    IN [kind |-> "Ellipse",
        center |-> center,
        top |-> from_angle(center, distance(top, center), 0),
        right |-> from_angle(center, distance(right, center), 90),
        rotation |-> angle_to(center, top)]

\* <<center, top, right>>
Ellipse_points(self) ==
    << self.center,
       from_angle(self.center, distance(self.center, self.top), self.rotation),
       from_angle(self.center, distance(self.center, self.right), self.rotation + 90) >>

Ellipse_left(self) == self.right.x - distance(self.center, self.right) * 2
Ellipse_right(self) == self.right.x
Ellipse_top(self) == self.top.y
Ellipse_bottom(self) == self.top.y + distance(self.center, self.top) * 2

Ellipse_width(self) == Abs(Ellipse_right(self) - Ellipse_left(self))
Ellipse_height(self) == Abs(Ellipse_bottom(self) - Ellipse_top(self))

\* the divisor is zero (the call panics) when width() or height() is 2
Ellipse_contains_panics(self) ==
    Xor2(Ellipse_width(self)) = 0 \/ Xor2(Ellipse_height(self)) = 0

\* `^` is XOR in the source, not a power
Ellipse_contains(self, point) ==
    TruncDiv(Xor2(point.x - self.center.x), Xor2(Ellipse_width(self)))
        + TruncDiv(Xor2(point.y - self.center.y), Xor2(Ellipse_height(self))) <= 1

----------------------------------------------------------------------------
(* Shape defaults: bounding extent over a point list *)

RECURSIVE SeqMin(_), SeqMax(_)
SeqMin(s) == IF Len(s) = 1 THEN s[1] ELSE Min(s[1], SeqMin(Tail(s)))
SeqMax(s) == IF Len(s) = 1 THEN s[1] ELSE Max(s[1], SeqMax(Tail(s)))

Xs(points) == [i \in 1..Len(points) |-> points[i].x]
Ys(points) == [i \in 1..Len(points) |-> points[i].y]

Shape_left(points) == SeqMin(Xs(points))
Shape_right(points) == SeqMax(Xs(points))
Shape_top(points) == SeqMin(Ys(points))
Shape_bottom(points) == SeqMax(Ys(points))

----------------------------------------------------------------------------
(* Triangle *)

Triangle_new(point1, point2, point3) ==
    LET points == <<point1, point2, point3>>
        angles == << angle_to(point1, point2), angle_to(point2, point3), angle_to(point3, point1) >>
        d12 == distance(point1, point2)
        d23 == distance(point2, point3)
        d31 == distance(point3, point1)
    IN [kind |-> "Triangle",
        points |-> points,
        angles |-> angles,
        angle_type |->
            IF \E i \in 1..3 : Abs(angles[i]) = 90 THEN "Right"
            ELSE IF \A i \in 1..3 : Abs(angles[i]) < 90 THEN "Acute"
            ELSE IF Abs(angles[1]) = Abs(angles[2]) /\ Abs(angles[2]) = Abs(angles[3])
                 THEN "Equiangular"
            ELSE IF \E i \in 1..3 : Abs(angles[i]) > 90 THEN "Obtuse"
            ELSE "Other",
        side_type |->
            IF d12 = d23 /\ d31 = d23 THEN "Equilateral"
            ELSE IF d12 = d23 \/ d31 = d23 \/ d31 = d12 THEN "Isosceles"
            ELSE "Scalene",
        center |-> mid_point(coord(Shape_left(points), Shape_top(points)),
                             coord(Shape_right(points), Shape_bottom(points)))]

Triangle_from_points(points) == Triangle_new(points[1], points[2], points[3])

Triangle_points(self) == self.points

\* s and t are f32 quotients by p1 x p2; with a zero divisor they are infinite or NaN
\* and the comparisons fail; otherwise the signs and s + t <= 1 are decided exactly
Triangle_contains(self, point) ==
    LET p1 == Coord_sub(self.points[2], self.points[1])
        p2 == Coord_sub(self.points[3], self.points[1])
        q == Coord_sub(point, self.points[1])
        d == cross_product(p1, p2)
        s == cross_product(q, p2) * Sign(d)
        t == cross_product(p1, q) * Sign(d)
    IN d # 0 /\ s >= 0 /\ t >= 0 /\ s + t <= Abs(d)

Triangle_as_lines(self) ==
    << Line_new(self.points[1], self.points[2]),
       Line_new(self.points[2], self.points[3]),
       Line_new(self.points[3], self.points[1]) >>

----------------------------------------------------------------------------
(* Polygon *)

\* the loop of is_convex from index i (0-based) on, `prev` being the last non-zero product
RECURSIVE is_convex_from(_, _, _)
is_convex_from(points, i, prev) ==
    LET n == Len(points)
        product == cross_product(Coord_sub(points[((i + 1) % n) + 1], points[i + 1]),
                                 Coord_sub(points[((i + 2) % n) + 1], points[i + 1]))
    IN IF i >= n THEN TRUE
       ELSE IF product # 0 /\ product * prev < 0 THEN FALSE
       ELSE is_convex_from(points, i + 1, IF product # 0 THEN product ELSE prev)

is_convex(points) == is_convex_from(points, 0, 0)

Polygon_new(points) ==
    LET center == mid_point(coord(Shape_left(points), Shape_top(points)),
                            coord(Shape_right(points), Shape_bottom(points)))
    IN [kind |-> "Polygon",
        points |-> points,
        fpoints |-> points,
        is_regular |-> \A i \in 1..Len(points) :
                          distance(points[i], center) = distance(points[1], center),
        center |-> center,
        is_convex |-> is_convex(points)]

Polygon_from_points(points) == Polygon_new(points)

Polygon_points(self) == self.points

\* edge i of the ray-casting loop runs between fpoints[i] and fpoints[j], j the index before i
\* (cyclically); the f32 comparison
\*   fpoints[i].x + (y - fpoints[i].y) / (fpoints[j].y - fpoints[i].y) * (fpoints[j].x - fpoints[i].x) < x
\* is decided by cross-multiplying with the divisor
Polygon_edge_toggles(self, i, point) ==
    LET n == Len(self.fpoints)
        pi == self.fpoints[i]
        pj == self.fpoints[IF i = 1 THEN n ELSE i - 1]
        dy == pj.y - pi.y
        num == (point.y - pi.y) * (pj.x - pi.x)
    IN /\ \/ pi.y < point.y /\ pj.y >= point.y
          \/ pj.y < point.y /\ pi.y >= point.y
       /\ pi.x <= point.x \/ pj.x <= point.x
       /\ IF dy > 0 THEN num < (point.x - pi.x) * dy ELSE num > (point.x - pi.x) * dy

\* odd_number_of_nodes is toggled once per edge for which the test holds
Polygon_contains(self, point) ==
    Cardinality({i \in 1..Len(self.fpoints) : Polygon_edge_toggles(self, i, point)}) % 2 = 1

Polygon_as_lines(self) ==
    LET n == Len(self.points)
    IN [i \in 1..n |-> Line_new(self.points[i], self.points[IF i = n THEN 1 ELSE i + 1])]

----------------------------------------------------------------------------
(* Shape: dispatch on the concrete kind *)

points(s) ==
    CASE s.kind = "Line" -> Line_points(s)
      [] s.kind = "Rect" -> Rect_points(s)
      [] s.kind = "Circle" -> Circle_points(s)
      [] s.kind = "Ellipse" -> Ellipse_points(s)
      [] s.kind = "Triangle" -> Triangle_points(s)
      [] s.kind = "Polygon" -> Polygon_points(s)

from_points(kind, pts) ==
    CASE kind = "Line" -> Line_from_points(pts)
      [] kind = "Rect" -> Rect_from_points(pts)
      [] kind = "Circle" -> Circle_from_points(pts)
      [] kind = "Ellipse" -> Ellipse_from_points(pts)
      [] kind = "Triangle" -> Triangle_from_points(pts)
      [] kind = "Polygon" -> Polygon_from_points(pts)

\* the outcome of a constructor: a panic, or the shape it returns
Panicked == [panicked |-> TRUE]
Returned(shape) == [panicked |-> FALSE, value |-> shape]

\* the number of points Kind::from_points reads by index; Polygon reads none by index
IndexedPoints(kind) ==
    CASE kind \in {"Line", "Rect", "Circle"} -> 2
      [] kind \in {"Ellipse", "Triangle"} -> 3
      [] kind = "Polygon" -> 0

\* Kind::from_points(pts) for a slice of any length. Line, Circle and Ellipse fail their
\* debug_assert in a debug build and index out of bounds in a release build, Rect and
\* Triangle index out of bounds in both: a panic in every build. Polygon::new has no
\* check of the length; it panics only on the unwrap of min() over no points at all.
from_points_any(kind, pts) ==
    IF Len(pts) < IndexedPoints(kind) THEN Panicked
    ELSE IF kind = "Polygon" /\ Len(pts) = 0 THEN Panicked
    ELSE Returned(from_points(kind, pts))

contains(s, point) ==
    CASE s.kind = "Line" -> Line_contains(s, point)
      [] s.kind = "Rect" -> Rect_contains(s, point)
      [] s.kind = "Circle" -> Circle_contains(s, point)
      [] s.kind = "Ellipse" -> Ellipse_contains(s, point)
      [] s.kind = "Triangle" -> Triangle_contains(s, point)
      [] s.kind = "Polygon" -> Polygon_contains(s, point)

\* A contains B iff every point of B.points() is contained by A
contains_points(shape, other) ==
    \A i \in 1..Len(points(other)) : contains(shape, points(other)[i])

----------------------------------------------------------------------------
(* Intersection: segment against segment *)

Line_contains_line(self, line) ==
    /\ self.start = line.start \/ self.start = line.end
    /\ self.end = line.start \/ self.end = line.end

\* orientation of the ordered triple: 0 collinear, 1 and 2 the two sides
direction(p, q, r) ==
    LET value == (q.y - p.y) * (r.x - q.x) - (q.x - p.x) * (r.y - q.y)
    IN IF value < 0 THEN 2 ELSE IF value = 0 THEN 0 ELSE 1

\* comp_line_line looking only for an end of r on l, not for an end of l on r
comp_line_line_one_sided(l, r) ==
    LET ls == l.start
        le == l.end
        rs == r.start
        re == r.end
        d1 == direction(ls, le, rs)
        d2 == direction(ls, le, re)
        d3 == direction(rs, re, ls)
        d4 == direction(rs, re, le)
    IN \/ Line_contains_line(l, r)
       \/ d1 # d2 /\ d3 # d4
       \/ d1 = 0 /\ is_between(rs, ls, le)
       \/ d2 = 0 /\ is_between(re, ls, le)

comp_line_line(l, r) ==
    LET ls == l.start
        le == l.end
        rs == r.start
        re == r.end
        d1 == direction(ls, le, rs)
        d2 == direction(ls, le, re)
        d3 == direction(rs, re, ls)
        d4 == direction(rs, re, le)
    IN \/ Line_contains_line(l, r)
       \/ d1 # d2 /\ d3 # d4
       \/ d1 = 0 /\ is_between(rs, ls, le)
       \/ d2 = 0 /\ is_between(re, ls, le)
       \/ d3 = 0 /\ is_between(ls, rs, re)
       \/ d4 = 0 /\ is_between(le, rs, re)

lines_lines(ls, rs) ==
    \E i \in 1..Len(ls) : \E j \in 1..Len(rs) : comp_line_line(ls[i], rs[j])

line_triangle(line, triangle) ==
    \E i \in 1..3 : comp_line_line(Triangle_as_lines(triangle)[i], line)

line_rect(line, rect) ==
    \E i \in 1..4 : comp_line_line(Rect_as_lines(rect)[i], line)

line_polygon(line, poly) ==
    \E i \in 1..Len(poly.points) : comp_line_line(Polygon_as_lines(poly)[i], line)

----------------------------------------------------------------------------
(* Intersection: segment against circle *)

\* sqrt(n) > k and sqrt(n) < k for integers n >= 0 and k
SqrtGreater(n, k) == k < 0 \/ n > k * k
SqrtLess(n, k) == k > 0 /\ n < k * k

\* The roots t = (-b +- sqrt(disc)) / (2a) of the segment's parameter; a > 0 whenever
\* disc > 0, so 0 < t < 1 is 0 < -b +- sqrt(disc) < 2a
line_circle(line, circle) ==
    LET ax == line.start.x - circle.center.x
        ay == line.start.y - circle.center.y
        bx == line.end.x - circle.center.x
        by == line.end.y - circle.center.y
        r == circle.radius
        a == (bx - ax) * (bx - ax) + (by - ay) * (by - ay)
        b == 2 * (ax * (bx - ax) + ay * (by - ay))
        c == ax * ax + ay * ay - r * r
        disc == b * b - 4 * a * c
    IN IF disc <= 0 THEN FALSE
       ELSE \/ SqrtGreater(disc, b) /\ SqrtLess(disc, 2 * a + b)
            \/ SqrtLess(disc, 0 - b) /\ SqrtGreater(disc, 0 - b - 2 * a)

rect_circle(rect, circle) ==
    \E i \in 1..4 : line_circle(Rect_as_lines(rect)[i], circle)

polygon_circle(polygon, circle) ==
    \E i \in 1..Len(polygon.points) : line_circle(Polygon_as_lines(polygon)[i], circle)

triangle_circle(triangle, circle) ==
    \E i \in 1..3 : line_circle(Triangle_as_lines(triangle)[i], circle)

----------------------------------------------------------------------------
(* Intersection: Rect against Rect, Circle against Circle *)

diff_rect_rect(l, r) ==
    LET lhs_left == Rect_left(l)
        lhs_right == Rect_right(l)
        rhs_left == Rect_left(r)
        rhs_right == Rect_right(r)
        lhs_top == Rect_top(l)
        lhs_bottom == Rect_bottom(l)
        rhs_top == Rect_top(r)
        rhs_bottom == Rect_bottom(r)
    IN << (lhs_left <= rhs_left /\ lhs_left <= rhs_right)
              \/ (lhs_left >= rhs_left /\ lhs_left >= rhs_right),
          (lhs_top <= rhs_top /\ lhs_top <= rhs_bottom)
              \/ (lhs_top >= rhs_top /\ lhs_top >= rhs_bottom),
          (lhs_right <= rhs_left /\ lhs_right <= rhs_right)
              \/ (lhs_right >= rhs_left /\ lhs_right >= rhs_right),
          (lhs_bottom <= rhs_bottom /\ lhs_bottom <= rhs_top)
              \/ (lhs_bottom >= rhs_bottom /\ lhs_bottom >= rhs_top) >>

\* comp_rect_rect without the test for perfectly overlapping rects
comp_rect_rect_no_equal(l, r) ==
    LET lhs_results == diff_rect_rect(l, r)
        rhs_results == diff_rect_rect(r, l)
    IN /\ lhs_results[1] # rhs_results[1]
       /\ lhs_results[2] # rhs_results[2]
       /\ lhs_results[3] # rhs_results[3]
       /\ lhs_results[4] # rhs_results[4]

comp_rect_rect(l, r) ==
    LET lhs_results == diff_rect_rect(l, r)
        rhs_results == diff_rect_rect(r, l)
    IN \/ /\ lhs_results[1] # rhs_results[1]
          /\ lhs_results[2] # rhs_results[2]
          /\ lhs_results[3] # rhs_results[3]
          /\ lhs_results[4] # rhs_results[4]
       \/ l.top_left = r.top_left /\ l.bottom_right = r.bottom_right

\* the disk-overlap test: distance against the sum of the radii
Circle_intersects_circle_sum(self, circle) ==
    distance(circle.center, self.center) <= circle.radius + self.radius

Circle_intersects_circle(self, circle) ==
    LET max == Max(circle.radius, self.radius)
        dist == distance(circle.center, self.center)
    IN dist <= max

----------------------------------------------------------------------------
(* IntersectsShape, per receiver kind (no Ellipse operand is modelled: its tests are
   f64 quadratics on trigonometrically rotated points) *)

Line_intersects(self, other) ==
    CASE other.kind = "Rect" -> line_rect(self, other)
      [] other.kind = "Circle" -> line_circle(self, other)
      [] other.kind = "Line" -> comp_line_line(self, other)
      [] other.kind = "Triangle" -> line_triangle(self, other)
      [] other.kind = "Polygon" -> line_polygon(self, other)

Rect_intersects(self, other) ==
    CASE other.kind = "Rect" -> comp_rect_rect(self, other)
      [] other.kind = "Circle" -> rect_circle(self, other)
      [] other.kind = "Line" -> line_rect(other, self)
      [] other.kind = "Triangle" -> lines_lines(Rect_as_lines(self), Triangle_as_lines(other))
      [] other.kind = "Polygon" -> lines_lines(Rect_as_lines(self), Polygon_as_lines(other))

Circle_intersects(self, other) ==
    CASE other.kind = "Rect" -> rect_circle(other, self)
      [] other.kind = "Circle" -> Circle_intersects_circle(self, other)
      [] other.kind = "Line" -> line_circle(other, self)
      [] other.kind = "Triangle" -> triangle_circle(other, self)
      [] other.kind = "Polygon" -> polygon_circle(other, self)

Triangle_intersects(self, other) ==
    CASE other.kind = "Rect" -> lines_lines(Rect_as_lines(other), Triangle_as_lines(self))
      [] other.kind = "Circle" -> triangle_circle(self, other)
      [] other.kind = "Line" -> line_triangle(other, self)
      [] other.kind = "Triangle" -> lines_lines(Triangle_as_lines(other), Triangle_as_lines(self))
      [] other.kind = "Polygon" -> lines_lines(Polygon_as_lines(other), Triangle_as_lines(self))

Polygon_intersects(self, other) ==
    CASE other.kind = "Rect" -> lines_lines(Polygon_as_lines(self), Rect_as_lines(other))
      [] other.kind = "Circle" -> polygon_circle(self, other)
      [] other.kind = "Line" -> line_polygon(other, self)
      [] other.kind = "Triangle" -> lines_lines(Polygon_as_lines(self), Triangle_as_lines(other))
      [] other.kind = "Polygon" -> lines_lines(Polygon_as_lines(self), Polygon_as_lines(other))

intersects(self, other) ==
    CASE self.kind = "Line" -> Line_intersects(self, other)
      [] self.kind = "Rect" -> Rect_intersects(self, other)
      [] self.kind = "Circle" -> Circle_intersects(self, other)
      [] self.kind = "Triangle" -> Triangle_intersects(self, other)
      [] self.kind = "Polygon" -> Polygon_intersects(self, other)

----------------------------------------------------------------------------
(* ContainsShape for Circle and Polygon receivers *)

Circle_contains_circle(self, circle) ==
    LET dist == distance(self.center, circle.center)
        max == self.radius - circle.radius
    IN dist < Abs(max)

\* the ContainsShape default: the corners only
Polygon_contains_rect_default(self, rect) == contains_points(self, rect)

Polygon_contains_rect(self, rect) ==
    contains_points(self, rect) /\ ~lines_lines(Polygon_as_lines(self), Rect_as_lines(rect))

Polygon_contains_circle(self, circle) ==
    contains_points(self, circle) /\ ~polygon_circle(self, circle)

\* the ContainsShape default for a line: the two ends only
Polygon_contains_line_default(self, line) == contains_points(self, line)

Polygon_contains_line(self, line) ==
    contains_points(self, line) /\ ~line_polygon(line, self)

Polygon_contains_triangle(self, triangle) ==
    contains_points(self, triangle)
        /\ ~lines_lines(Polygon_as_lines(self), Triangle_as_lines(triangle))

Polygon_contains_polygon(self, polygon) ==
    contains_points(self, polygon)
        /\ ~lines_lines(Polygon_as_lines(self), Polygon_as_lines(polygon))

Polygon_contains_shape(self, other) ==
    CASE other.kind = "Rect" -> Polygon_contains_rect(self, other)
      [] other.kind = "Circle" -> Polygon_contains_circle(self, other)
      [] other.kind = "Line" -> Polygon_contains_line(self, other)
      [] other.kind = "Triangle" -> Polygon_contains_triangle(self, other)
      [] other.kind = "Polygon" -> Polygon_contains_polygon(self, other)

----------------------------------------------------------------------------
(* ContainsShape for Line, Rect, Circle and Triangle receivers *)

Rect_center(self) == mid_point(self.top_left, self.bottom_right)

\* `distance - radius / 2` is a usize subtraction: it underflows when the distance between
\* the centers is below half the radius (a panic with overflow checks, a wrap without)
Rect_contains_circle_underflows(self, circle) ==
    distance(Rect_center(self), circle.center) < circle.radius \div 2

\* the result where the subtraction does not panic; a wrapped difference is at least
\* 2^64 minus half a radius, which no `max` exceeds
Rect_contains_circle(self, circle) ==
    LET dist == distance(Rect_center(self), circle.center) - circle.radius \div 2
        max == Max(Rect_width(self), Rect_height(self)) \div 2
    IN IF Rect_contains_circle_underflows(self, circle) THEN FALSE ELSE dist < max

Triangle_contains_circle(self, circle) ==
    IF Triangle_contains(self, circle.center) THEN triangle_circle(self, circle) ELSE FALSE

Line_contains_rect(self, rect) ==
    CASE self.line_type = "Point" ->
            self.start = rect.top_left /\ self.start = rect.bottom_right
      [] self.line_type \in {"Vertical", "Horizontal"} ->
            \/ self.start = rect.top_left /\ self.end = rect.bottom_right
            \/ self.end = rect.top_left /\ self.start = rect.bottom_right
      [] OTHER -> FALSE

Line_contains_shape(self, other) ==
    CASE other.kind = "Rect" -> Line_contains_rect(self, other)
      [] other.kind = "Circle" -> FALSE
      [] other.kind = "Line" -> Line_contains_line(self, other)
      [] other.kind = "Triangle" -> FALSE
      [] other.kind = "Polygon" -> FALSE

Rect_contains_shape(self, other) ==
    CASE other.kind = "Circle" -> Rect_contains_circle(self, other)
      [] OTHER -> contains_points(self, other)

Circle_contains_shape(self, other) ==
    CASE other.kind = "Circle" -> Circle_contains_circle(self, other)
      [] OTHER -> contains_points(self, other)

Triangle_contains_shape(self, other) ==
    CASE other.kind = "Circle" -> Triangle_contains_circle(self, other)
      [] OTHER -> contains_points(self, other)

\* self.contains_<kind of other>(other)
contains_shape_typed(self, other) ==
    CASE self.kind = "Line" -> Line_contains_shape(self, other)
      [] self.kind = "Rect" -> Rect_contains_shape(self, other)
      [] self.kind = "Circle" -> Circle_contains_shape(self, other)
      [] self.kind = "Triangle" -> Triangle_contains_shape(self, other)
      [] self.kind = "Polygon" -> Polygon_contains_shape(self, other)

----------------------------------------------------------------------------
(* Moving a shape *)

\* Shape::center: Line and Rect compute the mid point of their two points, the other
\* kinds return the center they store
Shape_center(s) ==
    CASE s.kind = "Line" -> mid_point(s.start, s.end)
      [] s.kind = "Rect" -> Rect_center(s)
      [] s.kind \in {"Circle", "Ellipse", "Triangle", "Polygon"} -> s.center

\* a rebuild that replaces the points and keeps every derived field of Line, Triangle
\* and Polygon as it was
rebuild_points_only(self, pts) ==
    CASE self.kind = "Line" -> [self EXCEPT !.start = pts[1], !.end = pts[2]]
      [] self.kind = "Triangle" -> [self EXCEPT !.points = pts]
      [] self.kind = "Polygon" -> [self EXCEPT !.points = pts, !.fpoints = pts]
      [] OTHER -> from_points(self.kind, pts)

\* Shape::rebuild: every kind that implements it calls its from_points
rebuild(self, pts) == from_points(self.kind, pts)

\* Shape::translate_by, overridden by Circle; the override of Ellipse has the form of
\* the default
translate_by(self, delta) ==
    IF self.kind = "Circle"
    THEN Circle_new(Coord_add(self.center, delta), self.radius)
    ELSE rebuild(self, [i \in DOMAIN points(self) |-> Coord_add(points(self)[i], delta)])

\* Shape::move_center_to, overridden by Circle
move_center_to(self, point) ==
    IF self.kind = "Circle"
    THEN Circle_new(point, self.radius)
    ELSE translate_by(self, Coord_sub(point, Shape_center(self)))

----------------------------------------------------------------------------
(* Rotation of a Rect *)

\* general_math::rotate_points: every point at its rounded distance from the center, at
\* its rounded angle plus degrees
rotate_points(center, pts, degrees) ==
    [i \in DOMAIN pts |->
        from_angle(center, distance(center, pts[i]), angle_to(center, pts[i]) + degrees)]

\* (degrees as f32 / 90.0).round() as isize: halves away from zero
quarter_turns(degrees) == Sign(degrees) * ((Abs(degrees) + 45) \div 90)

Rect_rotate_around(self, degrees, point) ==
    Rect_from_points(rotate_points(point, Rect_points(self), quarter_turns(degrees) * 90))

\* Shape::rotate
Rect_rotate(self, degrees) == Rect_rotate_around(self, degrees, Rect_center(self))

\* Shape::rotate_around: the canonical points turned, then rebuild; Rect overrides it
rotate_around(self, degrees, point) ==
    IF self.kind = "Rect" THEN Rect_rotate_around(self, degrees, point)
    ELSE rebuild(self, rotate_points(point, points(self), degrees))

\* a rotation that hands an Ellipse back with its two axes exchanged
rotate_exchanging_axes(self, degrees) ==
    LET turned == rotate_around(self, degrees, Shape_center(self))
    IN IF self.kind = "Ellipse"
       THEN [turned EXCEPT
                !.top = from_angle(turned.center, distance(turned.center, turned.right), 0),
                !.right = from_angle(turned.center, distance(turned.center, turned.top), 90)]
       ELSE turned

\* Shape::rotate: around the shape's own center
rotate(self, degrees) == rotate_around(self, degrees, Shape_center(self))

----------------------------------------------------------------------------
(* Moving to a point and scaling *)

\* Shape::move_to: the first canonical point goes to `point`; Circle builds a new Circle
\* there and Ellipse moves its center
move_to(self, point) ==
    CASE self.kind = "Circle" -> Circle_new(point, self.radius)
      [] self.kind = "Ellipse" -> move_center_to(self, point)
      [] OTHER -> translate_by(self, Coord_sub(point, points(self)[1]))

\* (dist as f32 * factor).round().max(0.0) as usize for a factor num / den with den a power
\* of two, where the product is exact: halves round away from zero, negatives become 0
scaled_distance(dist, factor) ==
    IF factor.num <= 0 THEN 0
    ELSE (2 * dist * factor.num + factor.den) \div (2 * factor.den)

\* general_math::scale_points: every point at its scaled distance from the center, at its
\* rounded angle
scale_points(center, pts, factor) ==
    [i \in DOMAIN pts |->
        from_angle(center, scaled_distance(distance(center, pts[i]), factor),
                   angle_to(center, pts[i]))]

\* Shape::scale_around
scale_around(self, factor, point) == rebuild(self, scale_points(point, points(self), factor))

\* Shape::scale: around the shape's own center
scale(self, factor) == scale_around(self, factor, Shape_center(self))

\* the seven transforms of Shape, by name
transform(name, self, point, degrees, factor) ==
    CASE name = "translate_by" -> translate_by(self, point)
      [] name = "move_to" -> move_to(self, point)
      [] name = "move_center_to" -> move_center_to(self, point)
      [] name = "rotate" -> rotate(self, degrees)
      [] name = "rotate_around" -> rotate_around(self, degrees, point)
      [] name = "scale" -> scale(self, factor)
      [] name = "scale_around" -> scale_around(self, factor, point)

----------------------------------------------------------------------------
(* Rasterizers: outline_pixels and filled_pixels. Every result is a Vec<Coord>, modelled
   as a sequence. *)

\* the elements of a sequence, as a set
Range(seq) == {seq[i] : i \in DOMAIN seq}

RECURSIVE into_iter(_)
\* FnvHashSet::into_iter().collect(): every element once; the order of a hash set is
\* unspecified and callers may not rely on it, so the listing is by rows here
into_iter(set) ==
    IF set = {} THEN <<>>
    ELSE LET first == CHOOSE c \in set :
                          \A d \in set : c.y < d.y \/ (c.y = d.y /\ c.x <= d.x)
         IN <<first>> \o into_iter(set \ {first})

RECURSIVE flat_map(_)
\* the contents of a sequence of sequences, one after another
flat_map(seqs) == IF seqs = <<>> THEN <<>> ELSE Head(seqs) \o flat_map(Tail(seqs))

RECURSIVE line_walk_x(_, _, _, _, _)
\* the loop of Line::outline_pixels where dx >= dy; c holds the loop's constants
line_walk_x(c, x, y, delta, output) ==
    LET pushed == Append(output, coord(x, y))
        stepped == delta + c.dy2
    IN IF x = c.x2 THEN pushed
       ELSE IF stepped > c.dx
            THEN line_walk_x(c, x + c.ix, y + c.iy, stepped - c.dx2, pushed)
            ELSE line_walk_x(c, x + c.ix, y, stepped, pushed)

RECURSIVE line_walk_y(_, _, _, _, _)
\* the loop of Line::outline_pixels where dx < dy
line_walk_y(c, x, y, delta, output) ==
    LET pushed == Append(output, coord(x, y))
        stepped == delta + c.dx2
    IN IF y = c.y2 THEN pushed
       ELSE IF stepped > c.dy
            THEN line_walk_y(c, x + c.ix, y + c.iy, stepped - c.dy2, pushed)
            ELSE line_walk_y(c, x, y + c.iy, stepped, pushed)

\* Line::outline_pixels with the two ends exchanged only when start.x > end.x
Line_outline_pixels_swap_on_x(self) ==
    LET swapped == self.start.x > self.end.x
        start == IF swapped THEN self.end ELSE self.start
        end == IF swapped THEN self.start ELSE self.end
    IN IF start.x = end.x
       THEN [i \in 1..(end.y - start.y + 1) |-> coord(start.x, start.y + i - 1)]
       ELSE IF start.y = end.y
       THEN [i \in 1..(end.x - start.x + 1) |-> coord(start.x + i - 1, start.y)]
       ELSE LET dx == Abs(end.x - start.x)
                dy == Abs(end.y - start.y)
                c == [x2 |-> end.x, y2 |-> end.y, dx |-> dx, dy |-> dy,
                      dx2 |-> dx * 2, dy2 |-> dy * 2,
                      ix |-> IF start.x < end.x THEN 1 ELSE -1,
                      iy |-> IF start.y < end.y THEN 1 ELSE -1]
            IN IF dx >= dy
               THEN line_walk_x(c, start.x, start.y, 0, <<>>)
               ELSE line_walk_y(c, start.x, start.y, 0, <<>>)

Line_outline_pixels(self) ==
    LET swapped == self.start.x > self.end.x \/ self.start.y > self.end.y
        start == IF swapped THEN self.end ELSE self.start
        end == IF swapped THEN self.start ELSE self.end
    IN IF start.x = end.x
       THEN [i \in 1..(end.y - start.y + 1) |-> coord(start.x, start.y + i - 1)]
       ELSE IF start.y = end.y
       THEN [i \in 1..(end.x - start.x + 1) |-> coord(start.x + i - 1, start.y)]
       ELSE LET dx == Abs(end.x - start.x)
                dy == Abs(end.y - start.y)
                c == [x2 |-> end.x, y2 |-> end.y, dx |-> dx, dy |-> dy,
                      dx2 |-> dx * 2, dy2 |-> dy * 2,
                      ix |-> IF start.x < end.x THEN 1 ELSE -1,
                      iy |-> IF start.y < end.y THEN 1 ELSE -1]
            IN IF dx >= dy
               THEN line_walk_x(c, start.x, start.y, 0, <<>>)
               ELSE line_walk_y(c, start.x, start.y, 0, <<>>)

Line_filled_pixels(self) == Line_outline_pixels(self)

\* Rect::outline_pixels without the bottom row
Rect_outline_pixels_open(self) ==
    into_iter({coord(x, Rect_top(self)) : x \in Rect_left(self)..Rect_right(self)}
              \cup {coord(Rect_left(self), y) : y \in Rect_top(self)..Rect_bottom(self)}
              \cup {coord(Rect_right(self), y) : y \in Rect_top(self)..Rect_bottom(self)})

Rect_outline_pixels(self) ==
    into_iter({coord(x, Rect_top(self)) : x \in Rect_left(self)..Rect_right(self)}
              \cup {coord(x, Rect_bottom(self)) : x \in Rect_left(self)..Rect_right(self)}
              \cup {coord(Rect_left(self), y) : y \in Rect_top(self)..Rect_bottom(self)}
              \cup {coord(Rect_right(self), y) : y \in Rect_top(self)..Rect_bottom(self)})

Rect_filled_pixels(self) ==
    into_iter({coord(x, y) : x \in Rect_left(self)..Rect_right(self),
                             y \in Rect_top(self)..Rect_bottom(self)})

RECURSIVE circle_walk(_, _, _, _, _, _)
\* the loop of Circle::outline_pixels; output is the hash set
circle_walk(cx, cy, x, y, d, output) ==
    IF x <= y
    THEN LET inserted == output \cup
                 { coord(cx + x, cy + y), coord(cx + x, cy - y),
                   coord(cx - x, cy + y), coord(cx - x, cy - y),
                   coord(cx + y, cy + x), coord(cx + y, cy - x),
                   coord(cx - y, cy + x), coord(cx - y, cy - x) }
         IN IF d < 0
            THEN circle_walk(cx, cy, x + 1, y, d + 2 * x + 1, inserted)
            ELSE circle_walk(cx, cy, x + 1, y - 1, d + 2 * (x - y) + 1, inserted)
    ELSE output

Circle_outline_pixels(self) ==
    into_iter(circle_walk(self.center.x, self.center.y, 0, self.radius,
                          TruncDiv(5 - self.radius * 4, 4), {}))

Circle_filled_pixels(self) ==
    LET cx == self.center.x
        cy == self.center.y
        squared_radius == self.radius * self.radius
        half_width(y) == Max(RoundSqrt(squared_radius - y * y), 0)
        row(y) == UNION { { coord(cx - x, cy - y), coord(cx + x, cy - y),
                            coord(cx - x, cy + y), coord(cx + x, cy + y) } :
                          x \in 0..half_width(y) }
    IN into_iter(UNION { row(y) : y \in 0..(self.radius - 1) })

Triangle_outline_pixels(self) ==
    LET lines == Triangle_as_lines(self)
    IN flat_map([i \in 1..Len(lines) |-> Line_outline_pixels(lines[i])])

Polygon_outline_pixels(self) ==
    LET lines == Polygon_as_lines(self)
    IN flat_map([i \in 1..Len(lines) |-> Line_outline_pixels(lines[i])])

\* Ellipse::rotate_point: the pixel at its rounded distance from the center, at its
\* rounded angle plus degrees
Ellipse_rotate_point(orig, center, degrees) ==
    from_angle(center, distance(center, orig), angle_to(center, orig) + degrees)

\* the four mirror images of the offset (x, y)
ellipse_quadrants(x, y) == {coord(x, y), coord(0 - x, y), coord(x, 0 - y), coord(0 - x, 0 - y)}

\* the first loop of Ellipse::outline_pixels, `while dx < dy`, with dx = 2 ry^2 x and
\* dy = 2 rx^2 y; p1 is kept times four, which makes its 0.25 and every f32 value of the
\* loop an integer. Yields x, y and the offsets inserted.
RECURSIVE ellipse_walk_1(_, _, _, _, _, _)
ellipse_walk_1(rx, ry, x, y, p1, output) ==
    IF 2 * ry * ry * x < 2 * rx * rx * y
    THEN LET out1 == output \cup ellipse_quadrants(x, y)
         IN IF p1 < 0
            THEN ellipse_walk_1(rx, ry, x + 1, y,
                                p1 + 4 * (2 * ry * ry * (x + 1) + ry * ry), out1)
            ELSE ellipse_walk_1(rx, ry, x + 1, y - 1,
                                p1 + 4 * (2 * ry * ry * (x + 1) - 2 * rx * rx * (y - 1) + ry * ry),
                                out1)
    ELSE [x |-> x, y |-> y, output |-> output]

\* the second loop, `while y >= 0`; p2 is kept times four
RECURSIVE ellipse_walk_2(_, _, _, _, _, _)
ellipse_walk_2(rx, ry, x, y, p2, output) ==
    IF y >= 0
    THEN LET out2 == output \cup ellipse_quadrants(x, y)
         IN IF p2 > 0
            THEN ellipse_walk_2(rx, ry, x, y - 1,
                                p2 - 4 * (2 * rx * rx * (y - 1) + rx * rx), out2)
            ELSE ellipse_walk_2(rx, ry, x + 1, y - 1,
                                p2 + 4 * (2 * ry * ry * (x + 1) - 2 * rx * rx * (y - 1) + rx * rx),
                                out2)
    ELSE output

Ellipse_outline_pixels(self) ==
    LET rx == Ellipse_width(self) \div 2
        ry == Ellipse_height(self) \div 2
        first == ellipse_walk_1(rx, ry, 0, ry, 4 * ry * ry - 4 * rx * rx * ry + rx * rx, {})
        p2 == ry * ry * (2 * first.x + 1) * (2 * first.x + 1)
                  + 4 * rx * rx * (first.y - 1) * (first.y - 1) - 4 * rx * rx * ry * ry
        offsets == ellipse_walk_2(rx, ry, first.x, first.y, p2, first.output)
        placed == {Coord_add(self.center, o) : o \in offsets}
    IN into_iter(IF self.rotation = 0 THEN placed
                 ELSE {Ellipse_rotate_point(c, self.center, self.rotation) : c \in placed})

outline_pixels(s) ==
    CASE s.kind = "Line" -> Line_outline_pixels(s)
      [] s.kind = "Rect" -> Rect_outline_pixels(s)
      [] s.kind = "Circle" -> Circle_outline_pixels(s)
      [] s.kind = "Ellipse" -> Ellipse_outline_pixels(s)
      [] s.kind = "Triangle" -> Triangle_outline_pixels(s)
      [] s.kind = "Polygon" -> Polygon_outline_pixels(s)

\* the scanline fills of Triangle and Polygon (f32 slopes) are not modelled
filled_pixels(s) ==
    CASE s.kind = "Line" -> Line_filled_pixels(s)
      [] s.kind = "Rect" -> Rect_filled_pixels(s)
      [] s.kind = "Circle" -> Circle_filled_pixels(s)

----------------------------------------------------------------------------
(* Runtime dispatch: IntersectsContains::contains_shape and intersects_shape *)

\* Option<bool>
Some(value) == [some |-> TRUE, value |-> value]
None == [some |-> FALSE]

\* ShapeBox::<Kind>(shape), the tagged union of the crate's shapes
ShapeBox(shape) == [kind |-> "ShapeBox", shape |-> shape]

\* an implementor of Shape that is none of the crate's kinds
ForeignShape == [kind |-> "Foreign"]

\* the shape a value stands for, whether boxed or not
unbox(shape) == IF shape.kind = "ShapeBox" THEN shape.shape ELSE shape

\* other.as_any().downcast_ref::<Kind>() is Some: the concrete type of other is Kind
downcast_ref(other, kind) == other.kind = kind

\* self.contains_<kind>(other) for a receiver of any concrete type; a ShapeBox hands the
\* call to the shape it holds (per_shape_1)
contains_kind(self, other) ==
    IF self.kind = "ShapeBox"
    THEN contains_shape_typed(self.shape, other)
    ELSE contains_shape_typed(self, other)

\* self.intersects_<kind>(other), likewise
intersects_kind(self, other) ==
    IF self.kind = "ShapeBox"
    THEN intersects(self.shape, other)
    ELSE intersects(self, other)

\* contains_shape without the ShapeBox branch
contains_shape_unboxed_only(self, other) ==
    IF downcast_ref(other, "Line") THEN Some(contains_kind(self, other))
    ELSE IF downcast_ref(other, "Rect") THEN Some(contains_kind(self, other))
    ELSE IF downcast_ref(other, "Triangle") THEN Some(contains_kind(self, other))
    ELSE IF downcast_ref(other, "Polygon") THEN Some(contains_kind(self, other))
    ELSE IF downcast_ref(other, "Circle") THEN Some(contains_kind(self, other))
    ELSE None

contains_shape(self, other) ==
    IF downcast_ref(other, "Line") THEN Some(contains_kind(self, other))
    ELSE IF downcast_ref(other, "Rect") THEN Some(contains_kind(self, other))
    ELSE IF downcast_ref(other, "Triangle") THEN Some(contains_kind(self, other))
    ELSE IF downcast_ref(other, "Polygon") THEN Some(contains_kind(self, other))
    ELSE IF downcast_ref(other, "Circle") THEN Some(contains_kind(self, other))
    ELSE IF downcast_ref(other, "ShapeBox")
         THEN Some(CASE other.shape.kind = "Line" -> contains_kind(self, other.shape)
                     [] other.shape.kind = "Rect" -> contains_kind(self, other.shape)
                     [] other.shape.kind = "Triangle" -> contains_kind(self, other.shape)
                     [] other.shape.kind = "Circle" -> contains_kind(self, other.shape)
                     [] other.shape.kind = "Polygon" -> contains_kind(self, other.shape))
    ELSE None

intersects_shape(self, other) ==
    IF downcast_ref(other, "Line") THEN Some(intersects_kind(self, other))
    ELSE IF downcast_ref(other, "Rect") THEN Some(intersects_kind(self, other))
    ELSE IF downcast_ref(other, "Triangle") THEN Some(intersects_kind(self, other))
    ELSE IF downcast_ref(other, "Polygon") THEN Some(intersects_kind(self, other))
    ELSE IF downcast_ref(other, "Circle") THEN Some(intersects_kind(self, other))
    ELSE IF downcast_ref(other, "ShapeBox")
         THEN Some(CASE other.shape.kind = "Line" -> intersects_kind(self, other.shape)
                     [] other.shape.kind = "Rect" -> intersects_kind(self, other.shape)
                     [] other.shape.kind = "Triangle" -> intersects_kind(self, other.shape)
                     [] other.shape.kind = "Circle" -> intersects_kind(self, other.shape)
                     [] other.shape.kind = "Polygon" -> intersects_kind(self, other.shape))
    ELSE None

----------------------------------------------------------------------------
(* Bounds: left, right, top and bottom as each kind answers them. Line, Rect, Circle and
   Ellipse override the defaults of Shape; Triangle, Polygon and ShapeBox do not, and a
   ShapeBox forwards points() to the shape it holds. *)

left(s) ==
    CASE s.kind = "Line" -> Line_left(s)
      [] s.kind = "Rect" -> Rect_left(s)
      [] s.kind = "Circle" -> s.center.x - s.radius
      [] s.kind = "Ellipse" -> Ellipse_left(s)
      [] s.kind \in {"Triangle", "Polygon", "ShapeBox"} -> Shape_left(points(unbox(s)))

right(s) ==
    CASE s.kind = "Line" -> Line_right(s)
      [] s.kind = "Rect" -> Rect_right(s)
      [] s.kind = "Circle" -> s.center.x + s.radius
      [] s.kind = "Ellipse" -> Ellipse_right(s)
      [] s.kind \in {"Triangle", "Polygon", "ShapeBox"} -> Shape_right(points(unbox(s)))

top(s) ==
    CASE s.kind = "Line" -> Line_top(s)
      [] s.kind = "Rect" -> Rect_top(s)
      [] s.kind = "Circle" -> s.center.y - s.radius
      [] s.kind = "Ellipse" -> Ellipse_top(s)
      [] s.kind \in {"Triangle", "Polygon", "ShapeBox"} -> Shape_top(points(unbox(s)))

bottom(s) ==
    CASE s.kind = "Line" -> Line_bottom(s)
      [] s.kind = "Rect" -> Rect_bottom(s)
      [] s.kind = "Circle" -> s.center.y + s.radius
      [] s.kind = "Ellipse" -> Ellipse_bottom(s)
      [] s.kind \in {"Triangle", "Polygon", "ShapeBox"} -> Shape_bottom(points(unbox(s)))

\* s.top_left() and s.bottom_right(): on a Rect the inherent methods, which return the
\* stored corners; on every other type the defaults of Shape
top_left(s) == IF s.kind = "Rect" THEN s.top_left ELSE coord(left(s), top(s))
bottom_right(s) == IF s.kind = "Rect" THEN s.bottom_right ELSE coord(right(s), bottom(s))

\* what a shape reports about its extent; ShapeBox::center forwards to the shape it holds
bounds(s) ==
    [left |-> left(s), right |-> right(s), top |-> top(s), bottom |-> bottom(s),
     top_left |-> top_left(s), bottom_right |-> bottom_right(s),
     center |-> Shape_center(unbox(s))]

\* Kind::to_shape_box
to_shape_box(s) == ShapeBox(s)

----------------------------------------------------------------------------
(* Inputs *)

Coords == 0..MaxCoord
Points == [x : Coords, y : Coords]

Lines == {Line_new(a, b) : a \in Points, b \in Points}
Rects == {Rect_new(a, b) : a \in Points, b \in Points}
Circles == {Circle_new(c, r) : c \in Points, r \in 0..MaxRadius}

Ellipses ==
    {Ellipse_new(c, w, h) : c \in Points, w \in 0..(2 * MaxRadius), h \in 0..(2 * MaxRadius)}
        \cup {Ellipse_new_rotated(c, t, r) : c \in Points, t \in Points, r \in Points}
        \cup {Ellipse_from_points(<<c, t, r>>) : c \in Points, t \in Points, r \in Points}
Triangles == {Triangle_new(a, b, c) : a \in Points, b \in Points, c \in Points}
\* the triangles with their first corner at (1, 1)
PinnedTriangles == {Triangle_new(coord(1, 1), b, c) : b \in Points, c \in Points}

\* four-cornered polygons around the box spanned by two points, from the first point on
BoxPolygon(a, b) == Polygon_new(<<a, coord(b.x, a.y), b, coord(a.x, b.y)>>)
BoxPolygons == {BoxPolygon(a, b) : a \in Points, b \in Points}
OriginBoxPolygons == {BoxPolygon(coord(0, 0), b) : b \in Points}

\* a few polygons that are not boxes: a triangle, an arrow head (concave), a bow tie
\* (self-crossing) and a five-cornered house
ShapedPolygons ==
    { Polygon_new(<<coord(0, 0), coord(MaxCoord, 1), coord(1, MaxCoord)>>),
      Polygon_new(<<coord(0, 0), coord(MaxCoord, 0), coord(1, 1), coord(0, MaxCoord)>>),
      Polygon_new(<<coord(0, 0), coord(MaxCoord, MaxCoord), coord(MaxCoord, 0),
                    coord(0, MaxCoord)>>),
      Polygon_new(<<coord(0, 1), coord(1, 0), coord(MaxCoord, 1), coord(MaxCoord, MaxCoord),
                    coord(0, MaxCoord)>>) }

Polygons == BoxPolygons \cup ShapedPolygons

\* one of each sort of shape, spread over the grid
Catalogue ==
    { Line_new(coord(0, 0), coord(MaxCoord, MaxCoord)),
      Line_new(coord(0, MaxCoord), coord(MaxCoord, 0)),
      Line_new(coord(1, 0), coord(1, MaxCoord)),
      Line_new(coord(MaxCoord, 1), coord(0, 1)),
      Line_new(coord(1, 1), coord(1, 1)),
      Line_new(coord(0, 1), coord(2, 2)),
      Rect_new(coord(0, 0), coord(MaxCoord, MaxCoord)),
      Rect_new(coord(1, 1), coord(2, 2)),
      Rect_new(coord(MaxCoord, 0), coord(0, MaxCoord)),
      Rect_new(coord(0, 1), coord(1, MaxCoord)),
      Rect_new(coord(1, 1), coord(MaxCoord, MaxCoord)),
      Circle_new(coord(1, 1), 1),
      Circle_new(coord(2, 2), MaxRadius),
      Circle_new(coord(0, 0), 2),
      Circle_new(coord(1, 2), 0),
      Triangle_new(coord(0, 0), coord(MaxCoord, 0), coord(0, MaxCoord)),
      Triangle_new(coord(1, 0), coord(MaxCoord, 2), coord(0, MaxCoord)),
      Triangle_new(coord(0, 0), coord(1, 1), coord(2, 2)),
      Polygon_new(<<coord(0, 0), coord(MaxCoord, 0), coord(MaxCoord, MaxCoord),
                    coord(0, MaxCoord)>>),
      Polygon_new(<<coord(1, 1), coord(2, 1), coord(2, 2), coord(1, 2)>>) }
        \cup ShapedPolygons

\* points on both sides of the origin
SignedPoints == [x : (0 - MaxCoord)..MaxCoord, y : (0 - MaxCoord)..MaxCoord]
SignedLines == {Line_new(a, b) : a \in SignedPoints, b \in SignedPoints}
SignedRects == {Rect_new(a, b) : a \in SignedPoints, b \in SignedPoints}

\* the orders in which three corners can be given
Orders3 == { <<1, 2, 3>>, <<1, 3, 2>>, <<2, 1, 3>>, <<2, 3, 1>>, <<3, 1, 2>>, <<3, 2, 1>> }

\* the shapes of the same kind built from the points of s given in another order: a Line
\* or a Rect from its two points exchanged, a Triangle from its corners permuted, a
\* Polygon from its corners listed from another corner on or backwards; a Circle is
\* given by a center and a radius, which have no order
Reordered(s) ==
    CASE s.kind = "Line" -> { Line_new(s.end, s.start) }
      [] s.kind = "Rect" -> { Rect_new(s.bottom_right, s.top_left) }
      [] s.kind = "Triangle" ->
            { Triangle_new(s.points[o[1]], s.points[o[2]], s.points[o[3]]) : o \in Orders3 }
      [] s.kind = "Polygon" ->
            LET n == Len(s.points)
            IN { Polygon_new([i \in 1..n |-> s.points[((i + k - 1) % n) + 1]]) : k \in 0..(n - 1) }
                 \cup { Polygon_new([i \in 1..n |-> s.points[n + 1 - i]]) }
      [] s.kind = "Circle" -> { s }

\* angles to rotate by: quarter turns, the halves between them and their neighbours
Degrees ==
    { 0 - 180, 0 - 135, 0 - 91, 0 - 90, 0 - 46, 0 - 45, 0 - 44, 0 - 1, 0, 1, 44, 45, 46,
      89, 90, 91, 134, 135, 136, 180, 225, 270, 360 }

\* turns, scale factors (num / den) and points to transform by
Turns == {90, 45, 0 - 30}
Factors == { [num |-> 2, den |-> 1], [num |-> 1, den |-> 2], [num |-> 0, den |-> 1] }
TransformPoints == {coord(0, 0), coord(1, 2), coord(0 - 2, 1)}
TransformNames ==
    {"translate_by", "move_to", "move_center_to", "rotate", "rotate_around", "scale",
     "scale_around"}

\* the turns and factors to try with a transform: one where it takes none
TurnsOf(name) == IF name \in {"rotate", "rotate_around"} THEN Turns ELSE {0}
FactorsOf(name) ==
    IF name \in {"scale", "scale_around"} THEN Factors ELSE {[num |-> 1, den |-> 1]}

\* the coordinates a transformed shape may reach
Reach == 2 * MaxCoord + 1
InReach(s) ==
    \A i \in DOMAIN points(s) : Abs(points(s)[i].x) <= Reach /\ Abs(points(s)[i].y) <= Reach

\* the kinds of shape
Kinds == {"Line", "Rect", "Circle", "Ellipse", "Triangle", "Polygon"}

\* a slice of points handed to a constructor
PointList(pts) == [kind |-> "Points", points |-> pts]

\* slices of up to MaxPoints points
PointLists == { PointList(pts) : pts \in UNION { [1..n -> Points] : n \in 0..MaxPoints } }

\* rects with a corner far from every pivot of the grid
FarRects ==
    { Rect_new(coord(0, 0), coord(11, 23)),
      Rect_new(coord(0, 0), coord(10, 20)) }

NoShape == [kind |-> "None"]
NoPoint == coord(0, 0)

----------------------------------------------------------------------------
(* Operations applied by the client *)

\* self.intersects_<kind>(other) and other.intersects_<kind>(self)
Intersects ==
    /\ op = "none"
    /\ rhs # NoShape
    /\ op' = "intersects"
    /\ out' = [fwd |-> intersects(lhs, rhs), rev |-> intersects(rhs, lhs)]
    /\ UNCHANGED <<lhs, rhs, pt>>

\* Kind::from_points(&self.points())
FromPoints ==
    /\ op = "none"
    /\ op' = "from_points"
    /\ out' = from_points(lhs.kind, points(lhs))
    /\ UNCHANGED <<lhs, rhs, pt>>

\* self.contains(pt); an Ellipse whose divisor is zero panics instead of returning
ContainsPoint ==
    /\ op = "none"
    /\ op' = "contains"
    /\ out' = IF lhs.kind = "Ellipse" /\ Ellipse_contains_panics(lhs)
              THEN [panicked |-> TRUE, value |-> FALSE]
              ELSE [panicked |-> FALSE, value |-> contains(lhs, pt)]
    /\ UNCHANGED <<lhs, rhs, pt>>

\* self.contains_<kind>(other), where it returns
ContainsShape ==
    /\ op = "none"
    /\ rhs # NoShape
    /\ op' = "contains_shape"
    /\ out' = contains_shape_typed(lhs, rhs)
    /\ UNCHANGED <<lhs, rhs, pt>>

\* rect.contains_circle(circle) in a build with overflow checks, where the subtraction
\* underflows: the call panics, whether it was made directly or through a ShapeBox or
\* contains_shape
ContainsShapePanics ==
    /\ op = "none"
    /\ unbox(lhs).kind = "Rect" /\ unbox(rhs).kind = "Circle"
    /\ Rect_contains_circle_underflows(unbox(lhs), unbox(rhs))
    /\ op' = "contains_shape_panic"
    /\ out' = "panic"
    /\ UNCHANGED <<lhs, rhs, pt>>

\* self.contains_shape(other) and self.intersects_shape(other), other given as &dyn Shape
DynShape ==
    /\ op = "none"
    /\ rhs # NoShape
    /\ op' = "dyn_shape"
    /\ out' = [contains |-> contains_shape(lhs, rhs),
               intersects |-> intersects_shape(lhs, rhs)]
    /\ UNCHANGED <<lhs, rhs, pt>>

\* Kind::from_points(points) for a slice of any length; Polygon::from_points is
\* Polygon::new
FromAnyPoints ==
    /\ op = "none"
    /\ lhs.kind = "Points"
    /\ \E kind \in Kinds :
          out' = [kind |-> kind, result |-> from_points_any(kind, lhs.points)]
    /\ op' = "from_any_points"
    /\ UNCHANGED <<lhs, rhs, pt>>

\* self.move_center_to(pt)
MoveCenterTo ==
    /\ op = "none"
    /\ lhs.kind \in Kinds
    /\ op' = "move_center_to"
    /\ out' = move_center_to(lhs, pt)
    /\ UNCHANGED <<lhs, rhs, pt>>

\* rect.rotate_around(degrees, pt) and rect.rotate(degrees)
RotateRect ==
    /\ op = "none"
    /\ lhs.kind = "Rect"
    /\ \E degrees \in Degrees :
          out' = [degrees |-> degrees,
                  around |-> Rect_rotate_around(lhs, degrees, pt),
                  centered |-> Rect_rotate(lhs, degrees)]
    /\ op' = "rotate"
    /\ UNCHANGED <<lhs, rhs, pt>>

\* self.outline_pixels()
OutlinePixels ==
    /\ op = "none"
    /\ lhs.kind \in Kinds
    /\ op' = "outline_pixels"
    /\ out' = outline_pixels(lhs)
    /\ UNCHANGED <<lhs, rhs, pt>>

\* self.filled_pixels()
FilledPixels ==
    /\ op = "none"
    /\ lhs.kind \in {"Line", "Rect", "Circle"}
    /\ op' = "filled_pixels"
    /\ out' = filled_pixels(lhs)
    /\ UNCHANGED <<lhs, rhs, pt>>

\* self.translate_by(pt)
TranslateBy ==
    /\ op = "none"
    /\ lhs.kind \in Kinds
    /\ op' = "translate_by"
    /\ out' = translate_by(lhs, pt)
    /\ UNCHANGED <<lhs, rhs, pt>>

\* self.rotate(degrees)
Rotate ==
    /\ op = "none"
    /\ lhs.kind \in Kinds
    /\ \E degrees \in Degrees :
          out' = [degrees |-> degrees, result |-> rotate(lhs, degrees)]
    /\ op' = "rotated"
    /\ UNCHANGED <<lhs, rhs, pt>>

\* the bounds of self and of self.to_shape_box()
Bounds ==
    /\ op = "none"
    /\ lhs.kind \in Kinds
    /\ op' = "bounds"
    /\ out' = [own |-> bounds(lhs), boxed |-> bounds(to_shape_box(lhs))]
    /\ UNCHANGED <<lhs, rhs, pt>>

\* rect.as_lines(), and rect.intersects_line(rhs), which is built on it
AsLines ==
    /\ op = "none"
    /\ lhs.kind = "Rect" /\ rhs.kind = "Line"
    /\ op' = "as_lines"
    /\ out' = [lines |-> Rect_as_lines(lhs), intersects |-> intersects(lhs, rhs)]
    /\ UNCHANGED <<lhs, rhs, pt>>

\* one more transform of a sequence: the receiver is lhs at first and the result of the
\* transform before afterwards; a transform takes &self and returns a new shape
Transform ==
    /\ op \in {"none", "transform"}
    /\ lhs.kind \in Kinds
    /\ LET receiver == IF op = "none" THEN lhs ELSE out.result
           steps == IF op = "none" THEN 0 ELSE out.steps
       IN /\ steps < MaxSteps
          /\ \E name \in TransformNames :
             \E degrees \in TurnsOf(name), factor \in FactorsOf(name) :
                LET result == transform(name, receiver, pt, degrees, factor)
                IN /\ InReach(result)
                   /\ out' = [name |-> name, receiver |-> receiver, result |-> result,
                              steps |-> steps + 1]
    /\ op' = "transform"
    /\ UNCHANGED <<lhs, rhs, pt>>

(* Any catalogued shape, any operation *)
Init ==
    /\ op = "none"
    /\ lhs \in Catalogue
    /\ rhs \in Catalogue
    /\ pt \in Points
    /\ out = "none"

Next ==
    \/ FromPoints
    \/ ContainsPoint
    \/ Intersects
    \/ ContainsShape
    \/ ContainsShapePanics
    \/ DynShape
    \/ OutlinePixels
    \/ FilledPixels
    \/ RotateRect
    \/ FromAnyPoints
    \/ MoveCenterTo
    \/ TranslateBy
    \/ Rotate
    \/ Bounds
    \/ AsLines
    \/ Transform

Spec == Init /\ [][Next]_vars

(* Round trip through the canonical point list, every shape of the six kinds *)
InitRoundTrip ==
    /\ op = "none"
    /\ lhs \in Lines \cup Rects \cup Circles \cup Ellipses \cup Triangles \cup Polygons
    /\ rhs = NoShape
    /\ pt = NoPoint
    /\ out = "none"

SpecRoundTrip == InitRoundTrip /\ [][FromPoints]_vars

(* A point against every shape of the six kinds *)
InitContains ==
    /\ op = "none"
    /\ lhs \in Lines \cup Rects \cup Circles \cup Ellipses \cup Triangles \cup Polygons
    /\ rhs = NoShape
    /\ pt \in Points
    /\ out = "none"

SpecContains == InitContains /\ [][ContainsPoint]_vars

\* the Rect of the crate's documentation example and the two points tried against it
DocRect == Rect_new(coord(10, 10), coord(20, 20))
DocPoints == {coord(15, 15), coord(20, 20)}

(* A point against a Rect *)
InitRectContains ==
    /\ op = "none"
    /\ lhs \in Rects \cup {DocRect}
    /\ rhs = NoShape
    /\ pt \in Points \cup DocPoints
    /\ out = "none"

SpecRectContains == InitRectContains /\ [][ContainsPoint]_vars

(* Two segments *)
InitLineLine ==
    /\ op = "none"
    /\ lhs \in Lines
    /\ rhs \in Lines
    /\ pt = NoPoint
    /\ out = "none"

SpecLineLine == InitLineLine /\ [][Intersects]_vars

(* Two Rects *)
InitRectRect ==
    /\ op = "none"
    /\ lhs \in Rects
    /\ rhs \in Rects
    /\ pt = NoPoint
    /\ out = "none"

SpecRectRect == InitRectRect /\ [][Intersects]_vars

(* A catalogued shape against every Line, Rect, Circle, Triangle and Polygon *)
InitIntersects ==
    /\ op = "none"
    /\ lhs \in Catalogue
    /\ rhs \in Lines \cup Rects \cup Circles \cup PinnedTriangles \cup Polygons
    /\ pt = NoPoint
    /\ out = "none"

SpecIntersects == InitIntersects /\ [][Intersects]_vars

(* Two Circles, intersection and containment *)
InitCircles ==
    /\ op = "none"
    /\ lhs \in Circles
    /\ rhs \in Circles
    /\ pt = NoPoint
    /\ out = "none"

SpecCircles == InitCircles /\ [][Intersects \/ ContainsShape]_vars

(* A Polygon holding another shape *)
InitPolygonContains ==
    /\ op = "none"
    /\ lhs \in OriginBoxPolygons \cup ShapedPolygons
    /\ rhs \in Lines \cup Rects \cup Circles \cup PinnedTriangles \cup Polygons
    /\ pt = NoPoint
    /\ out = "none"

SpecPolygonContains == InitPolygonContains /\ [][ContainsShape]_vars

(* A Rect or a Triangle holding a Circle *)
InitContainsCircle ==
    /\ op = "none"
    /\ lhs \in Rects \cup Triangles
    /\ rhs \in Circles
    /\ pt = NoPoint
    /\ out = "none"

SpecContainsCircle == InitContainsCircle /\ [][ContainsShape \/ ContainsShapePanics]_vars

(* A catalogued shape holding any Line, Rect, Circle, Triangle or Polygon *)
InitContainsShape ==
    /\ op = "none"
    /\ lhs \in Catalogue
    /\ rhs \in Lines \cup Rects \cup Circles \cup PinnedTriangles \cup Polygons
    /\ pt = NoPoint
    /\ out = "none"

SpecContainsShape == InitContainsShape /\ [][ContainsShape \/ ContainsShapePanics]_vars

(* A shape, boxed or not, asked about a &dyn Shape: a crate shape, boxed or not, or a
   shape of some other type *)
DynOperands == Catalogue \cup Rects \cup Circles

InitDyn ==
    /\ op = "none"
    /\ lhs \in Catalogue \cup { ShapeBox(s) : s \in Catalogue }
    /\ rhs \in DynOperands \cup { ShapeBox(s) : s \in DynOperands } \cup { ForeignShape }
    /\ pt = NoPoint
    /\ out = "none"

SpecDyn == InitDyn /\ [][DynShape \/ ContainsShapePanics]_vars

(* Rasterizing a Line anywhere around the origin *)
InitLinePixels ==
    /\ op = "none"
    /\ lhs \in SignedLines
    /\ rhs = NoShape
    /\ pt = NoPoint
    /\ out = "none"

SpecLinePixels == InitLinePixels /\ [][OutlinePixels \/ FilledPixels]_vars

(* Rasterizing a Rect anywhere around the origin *)
InitRectPixels ==
    /\ op = "none"
    /\ lhs \in SignedRects
    /\ rhs = NoShape
    /\ pt = NoPoint
    /\ out = "none"

SpecRectPixels == InitRectPixels /\ [][OutlinePixels \/ FilledPixels]_vars

(* Rasterizing a shape; rhs is the same shape built from its points in another order *)
InitPixels ==
    /\ op = "none"
    /\ lhs \in SignedLines \cup Rects \cup Circles \cup PinnedTriangles \cup Polygons
    /\ rhs \in Reordered(lhs)
    /\ pt = NoPoint
    /\ out = "none"

SpecPixels == InitPixels /\ [][OutlinePixels \/ FilledPixels]_vars

(* Rotating a Rect around a point of the grid and around its center *)
InitRotate ==
    /\ op = "none"
    /\ lhs \in Rects \cup FarRects
    /\ rhs = NoShape
    /\ pt \in Points
    /\ out = "none"

SpecRotate == InitRotate /\ [][RotateRect]_vars

(* Constructing a shape of any kind from a slice of points of any length *)
InitFromAnyPoints ==
    /\ op = "none"
    /\ lhs \in PointLists
    /\ rhs = NoShape
    /\ pt = NoPoint
    /\ out = "none"

SpecFromAnyPoints == InitFromAnyPoints /\ [][FromAnyPoints]_vars

(* Moving the center of a shape to a point on either side of the origin *)
InitMove ==
    /\ op = "none"
    /\ lhs \in Catalogue \cup Rects
                 \cup { Ellipse_new(coord(1, 1), w, h) : w \in 0..MaxRadius, h \in 0..MaxRadius }
    /\ rhs = NoShape
    /\ pt \in SignedPoints
    /\ out = "none"

SpecMove == InitMove /\ [][MoveCenterTo]_vars

(* Translation by every offset of the signed grid, every kind *)
InitTranslate ==
    /\ op = "none"
    /\ lhs \in Catalogue \cup Rects
                 \cup {Ellipse_new(coord(1, 1), w, h) : w \in 0..(2 * MaxRadius), h \in 0..(2 * MaxRadius)}
                 \cup {Ellipse_from_points(<<coord(0, 0), t, r>>) : t \in Points, r \in Points}
    /\ rhs = NoShape
    /\ pt \in SignedPoints
    /\ out = "none"

SpecTranslate == InitTranslate /\ [][TranslateBy]_vars

(* Rotation of the unrotated ellipses about their own center *)
InitEllipseRotate ==
    /\ op = "none"
    /\ lhs \in {Ellipse_new(c, w, h) : c \in Points, w \in 0..(2 * MaxRadius), h \in 0..(2 * MaxRadius)}
    /\ rhs = NoShape
    /\ pt = NoPoint
    /\ out = "none"

SpecEllipseRotate == InitEllipseRotate /\ [][Rotate]_vars

\* the square and the rectangle of the documentation of is_regular
DocSquare == Polygon_new(<<coord(0, 0), coord(10, 0), coord(10, 10), coord(0, 10)>>)
DocRectangle == Polygon_new(<<coord(0, 0), coord(20, 0), coord(20, 10), coord(0, 10)>>)

(* Polygons rebuilt from their point lists *)
InitPolygonNew ==
    /\ op = "none"
    /\ lhs \in Polygons \cup {DocSquare, DocRectangle}
    /\ rhs = NoShape
    /\ pt = NoPoint
    /\ out = "none"

SpecPolygonNew == InitPolygonNew /\ [][FromPoints]_vars

(* The bounds of every shape of the six kinds *)
InitBounds ==
    /\ op = "none"
    /\ lhs \in Catalogue \cup Rects \cup Circles
                 \cup {Ellipse_new(coord(1, 1), w, h) : w \in 0..(2 * MaxRadius), h \in 0..(2 * MaxRadius)}
    /\ rhs = NoShape
    /\ pt = NoPoint
    /\ out = "none"

SpecBounds == InitBounds /\ [][Bounds]_vars

(* The outline of every shape of the six kinds, the ellipses unrotated and rotated *)
InitOutlineBounds ==
    /\ op = "none"
    /\ lhs \in Catalogue \cup SignedLines \cup Rects \cup Circles \cup Polygons
                 \cup {Ellipse_new(coord(1, 1), w, h) : w \in 0..(2 * MaxRadius), h \in 0..(2 * MaxRadius)}
                 \cup {Ellipse_from_points(<<coord(0, 0), t, r>>) : t \in Points, r \in Points}
    /\ rhs = NoShape
    /\ pt = NoPoint
    /\ out = "none"

SpecOutlineBounds == InitOutlineBounds /\ [][OutlinePixels]_vars

(* Every Rect of the grid, in every corner order, and a line to meet it *)
InitAsLines ==
    /\ op = "none"
    /\ lhs \in Rects
    /\ rhs \in Lines
    /\ pt = NoPoint
    /\ out = "none"

SpecAsLines == InitAsLines /\ [][AsLines]_vars

\* a large Rect with a small Circle at its center
WideRect == Rect_new(coord(0, 0), coord(100, 100))
CenteredCircle == Circle_new(coord(50, 50), 4)

(* A circle against every Rect of the grid and the large one *)
InitRectCircle ==
    /\ op = "none"
    /\ lhs \in Rects \cup {WideRect}
    /\ rhs \in Circles \cup {CenteredCircle}
    /\ pt = NoPoint
    /\ out = "none"

SpecRectCircle == InitRectCircle /\ [][ContainsShape \/ ContainsShapePanics]_vars

(* Sequences of transforms of the catalogued lines, triangles and polygons *)
InitTransform ==
    /\ op = "none"
    /\ lhs \in {s \in Catalogue : s.kind \in {"Line", "Triangle", "Polygon"}}
    /\ rhs = NoShape
    /\ pt \in TransformPoints
    /\ out = "none"

SpecTransform == InitTransform /\ [][Transform]_vars

----------------------------------------------------------------------------
(* Reference geometry used by the properties *)

dot(a, b) == a.x * b.x + a.y * b.y

\* p lies on the closed segment from a to b
OnSegment(p, a, b) ==
    /\ cross_product(Coord_sub(b, a), Coord_sub(p, a)) = 0
    /\ Min(a.x, b.x) <= p.x /\ p.x <= Max(a.x, b.x)
    /\ Min(a.y, b.y) <= p.y /\ p.y <= Max(a.y, b.y)

\* strict side of r relative to the line through p and q: -1, 0 or 1
Side(p, q, r) == Sign(cross_product(Coord_sub(q, p), Coord_sub(r, p)))

\* the endpoints of each segment lie strictly on opposite sides of the other's line
Straddle(l, r) ==
    /\ Side(l.start, l.end, r.start) * Side(l.start, l.end, r.end) = 0 - 1
    /\ Side(r.start, r.end, l.start) * Side(r.start, r.end, l.end) = 0 - 1

\* The two closed segments have a point in common, by the parametric solution:
\* l.start + t * dl = r.start + u * dr with 0 <= t, u <= 1
SegmentsMeet(l, r) ==
    LET dl == Coord_sub(l.end, l.start)
        dr == Coord_sub(r.end, r.start)
        qp == Coord_sub(r.start, l.start)
        d == cross_product(dl, dr)
        t == cross_product(qp, dr) * Sign(d)
        u == cross_product(qp, dl) * Sign(d)
        t0 == dot(qp, dl)
        t1 == t0 + dot(dr, dl)
    IN IF d # 0 THEN 0 <= t /\ t <= Abs(d) /\ 0 <= u /\ u <= Abs(d)
       ELSE IF l.start = l.end /\ r.start = r.end THEN l.start = r.start
       ELSE IF l.start = l.end
            THEN /\ cross_product(dr, Coord_sub(l.start, r.start)) = 0
                 /\ 0 <= dot(Coord_sub(l.start, r.start), dr)
                 /\ dot(Coord_sub(l.start, r.start), dr) <= dot(dr, dr)
       ELSE /\ cross_product(qp, dl) = 0
            /\ Max(t0, t1) >= 0
            /\ Min(t0, t1) <= dot(dl, dl)

----------------------------------------------------------------------------
(* Properties *)

\* C1: for every shape s of every kind, from_points(s.points()) is equal to s
C1_RoundTrip == op = "from_points" => out = lhs

C3_LineLineExact ==
    op = "intersects" /\ lhs.kind = "Line" /\ rhs.kind = "Line" =>
        /\ out.fwd = \/ Straddle(lhs, rhs)
                     \/ OnSegment(rhs.start, lhs.start, lhs.end)
                     \/ OnSegment(rhs.end, lhs.start, lhs.end)
                     \/ OnSegment(lhs.start, rhs.start, rhs.end)
                     \/ OnSegment(lhs.end, rhs.start, rhs.end)
        /\ out.fwd = SegmentsMeet(lhs, rhs)

\* the edges whose points make up the boundary of a Line, Rect, Triangle or Polygon
BoundaryEdges(s) ==
    CASE s.kind = "Line" -> <<s>>
      [] s.kind = "Rect" ->
            LET tl == coord(Rect_left(s), Rect_top(s))
                tr == coord(Rect_right(s), Rect_top(s))
                br == coord(Rect_right(s), Rect_bottom(s))
                bl == coord(Rect_left(s), Rect_bottom(s))
            IN <<Line_new(tl, tr), Line_new(tr, br), Line_new(br, bl), Line_new(bl, tl)>>
      [] s.kind = "Triangle" -> Triangle_as_lines(s)
      [] s.kind = "Polygon" -> Polygon_as_lines(s)

OnBoundary(s, p) ==
    \E i \in 1..Len(BoundaryEdges(s)) :
        OnSegment(p, BoundaryEdges(s)[i].start, BoundaryEdges(s)[i].end)

\* C4: contains(point) is boundary-inclusive: every corner of a Line, Rect, Triangle or
\* Polygon and every integer point on one of its edges is contained by the shape
\* (shapes whose corners are all different and, for a Triangle, not in line)
C4_BoundaryInclusive ==
    op = "contains" /\ lhs.kind \in {"Line", "Rect", "Triangle", "Polygon"}
                    /\ Cardinality({points(lhs)[i] : i \in 1..Len(points(lhs))})
                           = Len(points(lhs))
                    /\ (lhs.kind = "Triangle" =>
                           ~are_collinear(lhs.points[1], lhs.points[2], lhs.points[3]))
                    /\ OnBoundary(lhs, pt)
        => out.value

\* C5 as claimed: Rect.contains is open on the far edge: the documentation's Rect
\* contains (15,15) but not (20,20), and no Rect contains a point with x = right() or
\* y = bottom()
C5_RectOpenFarEdge ==
    op = "contains" /\ lhs.kind = "Rect" =>
        /\ lhs = DocRect /\ pt = coord(15, 15) => out.value
        /\ lhs = DocRect /\ pt = coord(20, 20) => ~out.value
        /\ pt.x = Rect_right(lhs) \/ pt.y = Rect_bottom(lhs) => ~out.value

\* C5: Rect.contains is closed on every edge: a point is contained exactly when
\* left() <= x <= right() and top() <= y <= bottom(), so the documentation's Rect
\* contains both (15,15) and (20,20)
C5_RectClosed ==
    op = "contains" /\ lhs.kind = "Rect" =>
        /\ out.value =
              /\ Min(lhs.top_left.x, lhs.bottom_right.x) <= pt.x
              /\ pt.x <= Max(lhs.top_left.x, lhs.bottom_right.x)
              /\ Min(lhs.top_left.y, lhs.bottom_right.y) <= pt.y
              /\ pt.y <= Max(lhs.top_left.y, lhs.bottom_right.y)
        /\ lhs = DocRect /\ pt \in DocPoints => out.value

\* the far corner of the documentation's Rect, reported as contained
C5_Witness ==
    /\ op = "contains"
    /\ lhs = DocRect
    /\ pt = coord(20, 20)
    /\ out.value

\* the segment-based test: some edge of a.as_lines() intersects some edge of b.as_lines()
SegmentBased(a, b) == lines_lines(Rect_as_lines(a), Rect_as_lines(b))

\* the Rect is given by its top-left and bottom-right corners
Normalised(r) == r.top_left.x <= r.bottom_right.x /\ r.top_left.y <= r.bottom_right.y

\* the closed boxes of the two Rects have no point in common
Separated(a, b) ==
    \/ Rect_right(a) < Rect_left(b) \/ Rect_right(b) < Rect_left(a)
    \/ Rect_bottom(a) < Rect_top(b) \/ Rect_bottom(b) < Rect_top(a)

\* the two Rects overlap by more than a touch: each reaches beyond the other's near
\* edge, across and down
InteriorsOverlap(a, b) ==
    /\ Rect_left(a) < Rect_right(b) /\ Rect_left(b) < Rect_right(a)
    /\ Rect_top(a) < Rect_bottom(b) /\ Rect_top(b) < Rect_bottom(a)

\* the two Rects have a left, right, top or bottom coordinate in common
SharedEdgeCoordinate(a, b) ==
    \/ Rect_left(a) = Rect_left(b) \/ Rect_right(a) = Rect_right(b)
    \/ Rect_top(a) = Rect_top(b) \/ Rect_bottom(a) = Rect_bottom(b)

\* a lies strictly inside b
StrictlyInside(a, b) ==
    /\ Rect_left(b) < Rect_left(a) /\ Rect_right(a) < Rect_right(b)
    /\ Rect_top(b) < Rect_top(a) /\ Rect_bottom(a) < Rect_bottom(b)

C7_RectOverlap ==
    op = "intersects" /\ lhs.kind = "Rect" /\ rhs.kind = "Rect" =>
        /\ InteriorsOverlap(lhs, rhs) => out.fwd /\ out.rev
        /\ Separated(lhs, rhs) => ~out.fwd /\ ~out.rev

\* C8: intersects_circle is true exactly when the rounded distance between the centers is
\* at most the larger radius, that is when its square is at most m * m + m for the larger
\* radius m; the sum of the radii plays no part
C8_CircleMaxRadius ==
    op = "intersects" /\ lhs.kind = "Circle" /\ rhs.kind = "Circle" =>
        LET dx == lhs.center.x - rhs.center.x
            dy == lhs.center.y - rhs.center.y
            m == IF lhs.radius >= rhs.radius THEN lhs.radius ELSE rhs.radius
        IN /\ out.fwd = (dx * dx + dy * dy <= m * m + m)
           /\ out.fwd = (distance(lhs.center, rhs.center) <= m)

\* two circles whose disks overlap (distance within the sum of the radii) and that are
\* reported as not intersecting
C8_Witness ==
    /\ op = "intersects"
    /\ lhs.kind = "Circle" /\ rhs.kind = "Circle"
    /\ distance(lhs.center, rhs.center) <= lhs.radius + rhs.radius
    /\ ~out.fwd

\* C9: contains_circle returns true only if other is fully inside self: the distance
\* between the centers is less than self.radius - other.radius, so never when
\* other.radius is greater than self.radius
C9_CircleFullyInside ==
    op = "contains_shape" /\ lhs.kind = "Circle" /\ rhs.kind = "Circle" /\ out =>
        /\ rhs.radius <= lhs.radius
        /\ distance(lhs.center, rhs.center) < lhs.radius - rhs.radius

C11_CenterInsideNotCrossing ==
    op = "contains_shape" /\ lhs.kind \in {"Rect", "Triangle"} /\ rhs.kind = "Circle" =>
        out = (contains(lhs, rhs.center) /\ ~intersects(lhs, rhs))

\* the two shapes are exactly coincident: the same kind and the same canonical points
Coincident(a, b) == a.kind = b.kind /\ points(a) = points(b)

C14_LineOutline ==
    op = "outline_pixels" /\ lhs.kind = "Line" =>
        /\ lhs.start \in Range(out) /\ lhs.end \in Range(out)
        /\ lhs.start.y = lhs.end.y =>
              out = [i \in 1..(Line_right(lhs) - Line_left(lhs) + 1) |->
                        coord(Line_left(lhs) + i - 1, lhs.start.y)]
        /\ lhs.start.x = lhs.end.x =>
              out = [i \in 1..(Line_bottom(lhs) - Line_top(lhs) + 1) |->
                        coord(lhs.start.x, Line_top(lhs) + i - 1)]

\* a horizontal line given from right to left and ending left of the origin, listed
\* from its end
C14_Witness ==
    /\ op = "outline_pixels"
    /\ lhs.kind = "Line"
    /\ lhs.start.y = lhs.end.y /\ lhs.end.x < 0 /\ lhs.start.x > 0
    /\ out[1] = lhs.end /\ out[Len(out)] = lhs.start

\* C15: rasterization is independent of the order the points were given in: the shape
\* built from the same points in another order has the same set of outline pixels and of
\* filled pixels
C15_OrderIndependent ==
    /\ op = "outline_pixels" => Range(out) = Range(outline_pixels(rhs))
    /\ op = "filled_pixels" => Range(out) = Range(filled_pixels(rhs))

\* C16: no Coord appears more than once in the result of outline_pixels or filled_pixels
C16_Deduplicated ==
    op \in {"outline_pixels", "filled_pixels"} =>
        \A i, j \in DOMAIN out : i # j => out[i] # out[j]

NearestQuarter(degrees, q) == Abs(degrees - 90 * q) <= 45

\* b has the width and the height of a, or has them swapped
SameSize(a, b) ==
    \/ Rect_width(b) = Rect_width(a) /\ Rect_height(b) = Rect_height(a)
    \/ Rect_width(b) = Rect_height(a) /\ Rect_height(b) = Rect_width(a)

\* rotating a Rect snaps to the nearest quarter turn: rotate_around(d, p) equals
\* rotate_around(90 * round(d / 90), p), and rotate(d) does the same around center()
SnapsToQuarter ==
    op = "rotate" =>
        \E q \in (0 - 4)..4 :
            /\ NearestQuarter(out.degrees, q)
            /\ out.around = Rect_rotate_around(lhs, 90 * q, pt)
            /\ out.around = Rect_from_points(rotate_points(pt, Rect_points(lhs), 90 * q))
            /\ out.centered = Rect_rotate_around(lhs, 90 * q, Rect_center(lhs))

\* C18: rotating a Rect snaps to the nearest quarter turn, and the result has the same
\* width and height as r, or has them swapped
C18_SnapsKeepingSize ==
    op = "rotate" =>
        /\ SnapsToQuarter
        /\ SameSize(lhs, out.around)
        /\ SameSize(lhs, out.centered)

\* the number of points a shape of the kind needs
CanonicalArity(kind) == IF kind \in {"Line", "Rect", "Circle"} THEN 2 ELSE 3

\* C19: constructing a shape from too few points fails instead of producing a shape:
\* from_points with fewer than 2 points for a Line, Rect or Circle, or fewer than 3 for
\* an Ellipse or Triangle, fails, and so does constructing a Polygon from fewer than 3
C19_TooFewPointsFail ==
    op = "from_any_points" /\ Len(lhs.points) < CanonicalArity(out.kind) =>
        out.result.panicked

\* every canonical point of b has the offset from b's first point that the same point of
\* a has from a's first point
SameOffsets(a, b) ==
    /\ Len(points(b)) = Len(points(a))
    /\ \A i \in DOMAIN points(a) :
          Coord_sub(points(b)[i], points(b)[1]) = Coord_sub(points(a)[i], points(a)[1])

\* C20: move_center_to(point) moves the center of the shape onto point, negative
\* coordinates included, and every canonical point keeps its offset from the others
C20_MoveCenter ==
    op = "move_center_to" => Shape_center(out) = pt /\ SameOffsets(lhs, out)

\* C21: translate_by(delta) moves every canonical point by exactly delta and changes
\* nothing else, so a zero delta gives back an equal shape and an Ellipse keeps its
\* width, height and angle
C21_TranslateExact ==
    op = "translate_by" =>
        /\ points(out) = [i \in DOMAIN points(lhs) |-> Coord_add(points(lhs)[i], pt)]
        /\ (pt = coord(0, 0) => out = lhs)
        /\ (lhs.kind = "Ellipse" =>
                /\ Ellipse_width(out) = Ellipse_width(lhs)
                /\ Ellipse_height(out) = Ellipse_height(lhs)
                /\ out.rotation = lhs.rotation)

\* C22: Ellipse.contains squares: an unrotated ellipse with semi-axes a = width / 2 and
\* b = height / 2 contains exactly the points with dx*dx/(a*a) + dy*dy/(b*b) <= 1 (cleared
\* of its denominators here), and the call returns for every ellipse and point
C22_TrueSquaring ==
    op = "contains" /\ lhs.kind = "Ellipse" =>
        /\ ~out.panicked
        /\ LET a == Ellipse_width(lhs) \div 2
               b == Ellipse_height(lhs) \div 2
               dx == pt.x - lhs.center.x
               dy == pt.y - lhs.center.y
           IN lhs.rotation = 0 /\ a > 0 /\ b > 0 =>
                  (out.value <=> dx * dx * b * b + dy * dy * a * a <= a * a * b * b)

\* e = Ellipse::new(center, w, h) with both semi-axes at least one pixel, turned by 90
QuarterTurned ==
    /\ op = "rotated" /\ lhs.kind = "Ellipse" /\ out.degrees = 90
    /\ lhs.top # lhs.center /\ lhs.right # lhs.center

\* r.points()[1] lies where e.points()[2] pointed from the center, and r.points()[2] a
\* quarter turn further
PointsTurned(e, r) ==
    /\ angle_to(r.center, points(r)[2]) = angle_to(e.center, points(e)[3])
    /\ angle_to(r.center, points(r)[3]) = angle_to(e.center, points(e)[3]) + 90

SideSquared(a, b) == dot(Coord_sub(b, a), Coord_sub(b, a))

\* the triangle has an interior angle of 90 degrees: two of its sides are perpendicular
HasRightAngle(p) ==
    \E i \in 1..3 :
        LET a == p[i]
            b == p[(i % 3) + 1]
            c == p[((i + 1) % 3) + 1]
        IN dot(Coord_sub(b, a), Coord_sub(c, a)) = 0

\* exactly two of the three sides have the same length
TwoEqualSides(p) ==
    Cardinality({SideSquared(p[1], p[2]), SideSquared(p[2], p[3]), SideSquared(p[3], p[1])}) = 2

\* C24: Triangle::new classifies geometrically: Right exactly when an interior angle is 90
\* degrees, Isosceles when exactly two sides are equal, and the same for every order of
\* the three corners
C24_Classification ==
    (/\ op = "from_any_points" /\ out.kind = "Triangle" /\ Len(lhs.points) = 3
     /\ Side(lhs.points[1], lhs.points[2], lhs.points[3]) # 0) =>
        LET p == lhs.points
            t == out.result.value
        IN /\ (t.angle_type = "Right" <=> HasRightAngle(p))
           /\ (TwoEqualSides(p) => t.side_type = "Isosceles")
           /\ \A o \in Orders3 :
                 LET u == Triangle_new(p[o[1]], p[o[2]], p[o[3]])
                 IN u.angle_type = t.angle_type /\ u.side_type = t.side_type

\* every side of the closed polygon has the same length
AllSidesEqual(p) ==
    \A i \in DOMAIN p : SideSquared(p[i], p[(i % Len(p)) + 1]) = SideSquared(p[1], p[2])

\* C25: Polygon.is_regular() is true exactly when all sides of the polygon have the same
\* length
C25_RegularIffEqualSides ==
    op = "from_points" /\ lhs.kind = "Polygon" =>
        (out.is_regular <=> AllSidesEqual(out.points))

\* C28: a shape wrapped in a ShapeBox reports the same left, right, top, bottom,
\* top_left, bottom_right and center as the shape itself
C28_BoxKeepsBounds == op = "bounds" => out.boxed = out.own

\* C26: left, right, top and bottom bound the outline: every pixel of outline_pixels()
\* lies between them, for every kind of shape
C26_BoundsCoverOutline ==
    op = "outline_pixels" =>
        \A i \in DOMAIN out :
            /\ left(lhs) <= out[i].x /\ out[i].x <= right(lhs)
            /\ top(lhs) <= out[i].y /\ out[i].y <= bottom(lhs)

\* the two ends of a line, in no order
Ends(line) == {line.start, line.end}

\* the top, right, bottom and left edges of the bounding box of r
FourSides(r) ==
    LET tl == coord(Rect_left(r), Rect_top(r))
        tr == coord(Rect_right(r), Rect_top(r))
        br == coord(Rect_right(r), Rect_bottom(r))
        bl == coord(Rect_left(r), Rect_bottom(r))
    IN { {tl, tr}, {tr, br}, {br, bl}, {bl, tl} }

\* the Rects with the bounding box of r: one for every pair of opposite corners, in
\* either order
SameBox(r) ==
    LET tl == coord(Rect_left(r), Rect_top(r))
        tr == coord(Rect_right(r), Rect_top(r))
        br == coord(Rect_right(r), Rect_bottom(r))
        bl == coord(Rect_left(r), Rect_bottom(r))
    IN { Rect_new(tl, br), Rect_new(br, tl), Rect_new(tr, bl), Rect_new(bl, tr) }

\* C29: Rect.as_lines() returns the four sides of the rectangle whichever corners are
\* stored, so an intersection built on it does not depend on the order of the corners
C29_FourSides ==
    op = "as_lines" =>
        /\ {Ends(out.lines[i]) : i \in DOMAIN out.lines} = FourSides(lhs)
        /\ \A r \in SameBox(lhs) : intersects(r, rhs) = out.intersects

\* C30: Rect.contains_circle never fails or wraps in its unsigned subtraction, and it is
\* true for a circle at the center of the rect whose diameter is below the rect's width
\* and height
C30_NoUnderflow ==
    /\ op # "contains_shape_panic"
    /\ (op = "contains_shape" /\ lhs.kind = "Rect" /\ rhs.kind = "Circle") =>
          /\ ~Rect_contains_circle_underflows(lhs, rhs)
          /\ (/\ rhs.center = Rect_center(lhs)
              /\ 2 * rhs.radius < Rect_width(lhs)
              /\ 2 * rhs.radius < Rect_height(lhs)) => out

\* the derived fields of s have the values computed anew from its points
Fresh(s) ==
    CASE s.kind = "Line" ->
            /\ (s.line_type = "Point" <=> s.start = s.end)
            /\ s.line_type = Line_new(s.start, s.end).line_type
            /\ s.len = distance(s.start, s.end)
            /\ s.angle = angle_to(s.start, s.end)
      [] s.kind = "Polygon" ->
            /\ s.is_convex = is_convex(s.points)
            /\ s.is_regular = Polygon_new(s.points).is_regular
            /\ s.center = mid_point(coord(Shape_left(s.points), Shape_top(s.points)),
                                   coord(Shape_right(s.points), Shape_bottom(s.points)))
      [] s.kind = "Triangle" ->
            s.center = mid_point(coord(Shape_left(s.points), Shape_top(s.points)),
                                 coord(Shape_right(s.points), Shape_bottom(s.points)))
      [] OTHER -> TRUE

\* C27: after any sequence of transforms the derived fields of a Line, a Polygon and a
\* Triangle are those computed anew from its points, and a transform leaves its receiver
\* and the shape the sequence started from as they were
C27_CachedFieldsFresh ==
    /\ [](op = "transform" => Fresh(out.result) /\ Fresh(out.receiver))
    /\ [][op' = "transform" =>
             /\ lhs' = lhs
             /\ out'.receiver = (IF op = "none" THEN lhs ELSE out.result)]_vars

\* a second transform that turned a line into a single point, and one that changed the
\* stored center of a polygon
C27_Witness ==
    /\ op = "transform" /\ out.steps = 2
    /\ \/ /\ out.receiver.kind = "Line"
          /\ out.receiver.line_type # "Point" /\ out.result.line_type = "Point"
       \/ /\ out.receiver.kind = "Polygon"
          /\ out.receiver.center # out.result.center

====
